---------------------------- MODULE Spec2Model ----------------------------
(***************************************************************************)
(* A model of SlackAdder (src/slack_message_spam_bot/bot.py): the reply    *)
(* batcher, the rate-limit retry logic, the authorization gate, the        *)
(* command handler with its group file and attached files, the channel     *)
(* resolver and the join-then-invite orchestrator.                         *)
(*                                                                         *)
(* A token (an identifier, a name, a command word) is a string: a sequence *)
(* of one-character strings.  A message text, which may be thousands of    *)
(* characters long, is a run-length encoded string: a sequence of runs     *)
(* [s |-> c, n |-> k], "k characters described by c".  Runs whose s is a   *)
(* member of Whitespace are white space; every other run is visible text.  *)
(***************************************************************************)
EXTENDS Integers, Sequences, FiniteSets, TLC

VARIABLES
    lines,      \* _send_batched_messages: the `lines` argument
    line_idx,   \* _send_batched_messages: position of `for line in lines`
    batch,      \* _send_batched_messages: `batch`
    char_count, \* _send_batched_messages: `char_count`
    said,       \* every say(...) call made so far, in order (the message texts)
    bpc,        \* _send_batched_messages: "idle" | "call" | "loop" | "done"
    channel_ids,\* _invite_bot_to_channels: the `channel_ids` argument
    ch_idx,     \* _invite_bot_to_channels: position of `for channel_id in channel_ids`
    join_error, \* _invite_bot_to_channels: `join_error`
    attempt,    \* _invite_bot_to_channels: `attempt`
    results,    \* _invite_bot_to_channels: `results`
    ipc,        \* _invite_bot_to_channels: "idle" | "call" | "join" | "invite" | "done"
    joined,     \* positions of channel_ids for which conversations_join has been called
    twin,       \* a second call of _invite_bot_to_channels on the same channel_ids
    diff_idx,   \* the position whose remote responses may differ between the two calls
    CHANNEL_CACHE,  \* _CHANNEL_CACHE: lower-cased channel name -> identifier
    directory,  \* the remote channel listing: its pages, each a sequence of channels
    rtoken,     \* _resolve_channel_identifier: the `token` argument
    channel_name,   \* _channel_name_to_id: `channel_name` (normalised)
    cursor,     \* _channel_name_to_id: `cursor` (0 is None; k asks for page k)
    rresult,    \* the value _resolve_channel_identifier returned
    fetches,    \* conversations_list calls made by the resolution under way
    rpc,        \* resolver: "idle" | "start" | "listing" | "done"
    resolutions,\* what the resolutions made so far returned, and their fetches
    ALLOWED_USERS,      \* ALLOWED_USERS: <<>> for None, <<S>> for the set S
    USER_INFO_CACHE,    \* _USER_INFO_CACHE: user identifier -> guest flags
    CHANNEL_INFO_CACHE, \* _CHANNEL_INFO_CACHE: channel identifier -> shared flags
    event,      \* handle_app_mention: the event being handled
    hpc,        \* handle_app_mention: "idle" | "users_info" | "conversations_info" |
                \*   "command" | "extract" | "invite" | "reply" | "done"
    lookup_attempt, \* _is_guest_user / _is_external_channel: `attempt`
    last_resp,  \* the answer to the latest users_info / conversations_info call
    slept,      \* time.sleep calls of the lookup under way
    reached,    \* the stages the handling of the event has got to
    rejected_at,\* the gate step that turned the event down, or "none"
    xt,         \* _parse_add_arguments / _extract_channel_ids: their locals
    group_calls,\* the groups _resolve_group_channels has been called for, in order
    last_call,  \* the latest conversations_join / conversations_invite call, its answer,
                \*   and the answer to the latest conversations_join
    call_arg,   \* the argument of the function call under study
    call_ret,   \* what that call returned: <<>> before it, <<value>> after it
    threads     \* two handler threads at a cache lookup: the locals of each

batcherVars == <<lines, line_idx, batch, char_count, said, bpc>>
inviteVars == <<channel_ids, ch_idx, join_error, attempt, results, ipc, joined>>
pairVars == <<twin, diff_idx>>
resolverVars == <<CHANNEL_CACHE, directory, rtoken, channel_name, cursor, rresult, fetches, rpc>>
driverVars == <<resolutions>>
histVars == <<group_calls, last_call>>
callVars == <<call_arg, call_ret>>
threadVars == <<threads>>
gateRest == <<ALLOWED_USERS, USER_INFO_CACHE, CHANNEL_INFO_CACHE, event,
              lookup_attempt, last_resp, slept, reached, rejected_at>>
gateVars == <<gateRest, hpc>>
handlerVars == <<gateVars, xt>>
vars == <<batcherVars, inviteVars, pairVars, resolverVars, driverVars, handlerVars,
          histVars, callVars, threadVars>>

-----------------------------------------------------------------------------
(* Strings and sequences *)

SeqsUpTo(S, k) == UNION { [1..m -> S] : m \in 0..k }

Run(c, k) == [s |-> c, n |-> k]
NL == Run("\n", 1)
Whitespace == {" ", "\n"}

\* The two halves of a sequence (sums and concatenations are taken by halves)
FirstHalf(s) == SubSeq(s, 1, Len(s) \div 2)
SecondHalf(s) == SubSeq(s, Len(s) \div 2 + 1, Len(s))

\* len(text)
RECURSIVE StrLen(_)
StrLen(text) ==
    IF text = <<>> THEN 0
    ELSE IF Len(text) = 1 THEN text[1].n
    ELSE StrLen(FirstHalf(text)) + StrLen(SecondHalf(text))

RECURSIVE lstrip(_)
lstrip(text) ==
    IF text # <<>> /\ Head(text).s \in Whitespace THEN lstrip(Tail(text)) ELSE text

RECURSIVE rstrip(_)
rstrip(text) ==
    IF text # <<>> /\ text[Len(text)].s \in Whitespace
    THEN rstrip(SubSeq(text, 1, Len(text) - 1))
    ELSE text

\* str.strip(): leading and trailing white space removed, the inside kept
strip(text) == rstrip(lstrip(text))

\* "\n".join(parts)
RECURSIVE join_newline(_)
join_newline(parts) ==
    IF parts = <<>> THEN <<>>
    ELSE IF Len(parts) = 1 THEN parts[1]
    ELSE join_newline(FirstHalf(parts)) \o <<NL>> \o join_newline(SecondHalf(parts))

\* The lines of a message text (str.splitlines()): the text cut at every line
\* break; the empty text has no line, and a final line break opens no line.
splitlines(text) ==
    LET n == Len(text)
        breaks == { i \in 1..n : text[i] = NL }
        next(b) == CHOOSE c \in breaks \cup {n + 1} :
                       c > b /\ \A d \in breaks \cup {n + 1} : d > b => c <= d
        start(k) == CHOOSE b \in breaks \cup {0} :
                       Cardinality({ c \in breaks : c <= b }) = k - 1
        pieces == [k \in 1..(Cardinality(breaks) + 1) |->
                       SubSeq(text, start(k) + 1, next(start(k)) - 1)]
    IN  IF n = 0 THEN <<>>
        ELSE IF text[n] = NL THEN SubSeq(pieces, 1, Len(pieces) - 1)
        ELSE pieces

-----------------------------------------------------------------------------
(* Strings as character sequences *)

LowerChars == <<"a", "b", "c", "d", "e", "f", "g", "h", "i", "j", "k", "l", "m",
                "n", "o", "p", "q", "r", "s", "t", "u", "v", "w", "x", "y", "z">>
UpperChars == <<"A", "B", "C", "D", "E", "F", "G", "H", "I", "J", "K", "L", "M",
                "N", "O", "P", "Q", "R", "S", "T", "U", "V", "W", "X", "Y", "Z">>

UpperChar(c) ==
    IF \E i \in 1..26 : LowerChars[i] = c
    THEN UpperChars[CHOOSE i \in 1..26 : LowerChars[i] = c]
    ELSE c
LowerChar(c) ==
    IF \E i \in 1..26 : UpperChars[i] = c
    THEN LowerChars[CHOOSE i \in 1..26 : UpperChars[i] = c]
    ELSE c

\* str.upper(), str.lower()
upper(s) == [i \in 1..Len(s) |-> UpperChar(s[i])]
lower(s) == [i \in 1..Len(s) |-> LowerChar(s[i])]

\* str.startswith(p), str.endswith(p)
startswith(s, p) == Len(s) >= Len(p) /\ SubSeq(s, 1, Len(p)) = p
endswith(s, p) == Len(s) >= Len(p) /\ SubSeq(s, Len(s) - Len(p) + 1, Len(s)) = p

Min(S) == CHOOSE x \in S : \A y \in S : x <= y
Max(S) == CHOOSE x \in S : \A y \in S : x >= y

\* str.find(sub), counted from 1; 0 when sub does not occur
find(s, sub) ==
    LET hits == { i \in 1..(Len(s) - Len(sub) + 1) : SubSeq(s, i, i + Len(sub) - 1) = sub }
    IN  IF hits = {} THEN 0 ELSE Min(hits)

\* str.replace(old, "", 1)
remove_first(s, old) ==
    LET i == find(s, old)
    IN  IF i = 0 THEN s ELSE SubSeq(s, 1, i - 1) \o SubSeq(s, i + Len(old), Len(s))

\* str.strip() of a character sequence
strip_chars(s) ==
    LET keep == { i \in 1..Len(s) : s[i] \notin Whitespace }
    IN  IF keep = {} THEN <<>> ELSE SubSeq(s, Min(keep), Max(keep))

\* str.lstrip(c)
lstrip_char(s, c) ==
    LET keep == { i \in 1..Len(s) : s[i] # c }
    IN  IF keep = {} THEN <<>> ELSE SubSeq(s, Min(keep), Len(s))

\* str.split(): the maximal runs of non-white-space characters, in order
split(s) ==
    LET starts == { i \in 1..Len(s) : s[i] \notin Whitespace
                                       /\ (i = 1 \/ s[i - 1] \in Whitespace) }
        stop(i) == Min({ j \in i..Len(s) : j = Len(s) \/ s[j + 1] \in Whitespace })
        nth(k) == CHOOSE i \in starts : Cardinality({ j \in starts : j < i }) = k - 1
    IN  [k \in 1..Cardinality(starts) |-> SubSeq(s, nth(k), stop(nth(k)))]

\* A character sequence as message text (its run-length encoding)
Compress(s) ==
    LET starts == { i \in 1..Len(s) : i = 1 \/ s[i] # s[i - 1] }
        stop(i) == Min({ j \in i..Len(s) : j = Len(s) \/ s[j + 1] # s[i] })
        nth(k) == CHOOSE i \in starts : Cardinality({ j \in starts : j < i }) = k - 1
    IN  [k \in 1..Cardinality(starts) |-> Run(s[nth(k)], stop(nth(k)) - nth(k) + 1)]

\* k times the character c
Rep(c, k) == [i \in 1..k |-> c]

\* The elements of a sequence
Range(s) == { s[i] : i \in 1..Len(s) }

\* (mutant) every occurrence is kept
dedupe_Keep(s) == s

\* list(dict.fromkeys(s)): the first occurrences, in order
dedupe(s) ==
    LET firsts == { i \in 1..Len(s) : \A j \in 1..(i - 1) : s[j] # s[i] }
        nth(k) == CHOOSE i \in firsts : Cardinality({ j \in firsts : j < i }) = k - 1
    IN  [k \in 1..Cardinality(firsts) |-> s[nth(k)]]

-----------------------------------------------------------------------------
(* Reply batcher: _send_batched_messages *)

MaxBatchChars == 3500
MaxBatchLines == 40

\* say("\n".join(batch), thread_ts=thread_ts) followed by the reset of the batch
FlushBatch(st) ==
    [batch |-> <<>>, char_count |-> 0, said |-> Append(st.said, join_newline(st.batch))]

\* One iteration of `for line in lines`
BatchLine(st, raw) ==
    LET line == strip(raw)
        flushed == IF st.char_count + StrLen(line) + 1 > MaxBatchChars
                      \/ Len(st.batch) >= MaxBatchLines
                   THEN FlushBatch(st)
                   ELSE st
    IN  IF line = <<>> THEN st
        ELSE [flushed EXCEPT !.batch = Append(@, line),
                             !.char_count = @ + StrLen(line) + 1]

\* (mutant) the trailing partial batch is dropped
FlushTail_Dropped(st) == st

\* `if batch: say(...)` after the loop
FlushTail(st) == IF st.batch # <<>> THEN FlushBatch(st) ELSE st

BatcherState == [batch |-> batch, char_count |-> char_count, said |-> said]

SetBatcherState(st) ==
    /\ batch' = st.batch
    /\ char_count' = st.char_count
    /\ said' = st.said

\* Entry of _send_batched_messages: `if not lines: return`, then the locals
BatcherEnter ==
    /\ bpc = "call"
    /\ IF lines = <<>>
       THEN bpc' = "done" /\ UNCHANGED <<batch, char_count, line_idx>>
       ELSE bpc' = "loop" /\ batch' = <<>> /\ char_count' = 0 /\ line_idx' = 1
    /\ UNCHANGED <<lines, said>>
    /\ UNCHANGED <<inviteVars, pairVars, resolverVars, driverVars, histVars, callVars, threadVars, handlerVars>>

\* One iteration of the loop
BatcherIter ==
    /\ bpc = "loop"
    /\ line_idx <= Len(lines)
    /\ SetBatcherState(BatchLine(BatcherState, lines[line_idx]))
    /\ line_idx' = line_idx + 1
    /\ UNCHANGED <<lines, bpc>>
    /\ UNCHANGED <<inviteVars, pairVars, resolverVars, driverVars, histVars, callVars, threadVars, handlerVars>>

\* The loop is over: the trailing flush, and the return
BatcherTail ==
    /\ bpc = "loop"
    /\ line_idx > Len(lines)
    /\ SetBatcherState(FlushTail(BatcherState))
    /\ bpc' = "done"
    /\ UNCHANGED <<lines, line_idx>>
    /\ UNCHANGED <<inviteVars, pairVars, resolverVars, driverVars, histVars, callVars, threadVars, handlerVars>>

-----------------------------------------------------------------------------
(* Remote responses and the rate-limit retry logic *)

MAX_RATE_LIMIT_RETRIES == 5

None == "None"

\* A call of the remote service returns, or raises SlackApiError whose response
\* carries a status code and (unless the body is missing) an error code.
Ok == [ok |-> TRUE, status |-> 200, error |-> None]
Err(st, code) == [ok |-> FALSE, status |-> st, error |-> code]

\* (mutant) the error code alone signals rate limiting
IsRateLimitSignal_CodeOnly(r) == r.error = "ratelimited"

\* `status == 429 or error == "ratelimited"`
IsRateLimitSignal(r) == r.status = 429 \/ r.error = "ratelimited"

\* (mutant) the bound is never applied
_handle_rate_limit_Unbounded(r, att) == IsRateLimitSignal(r)

\* _handle_rate_limit(exc, attempt): TRUE, after time.sleep, when the caller is
\* to retry
_handle_rate_limit(r, att) ==
    IF IsRateLimitSignal(r)
    THEN (IF att > MAX_RATE_LIMIT_RETRIES THEN FALSE ELSE TRUE)
    ELSE FALSE

RateLimitResponses == { Err(429, "ratelimited"), Err(429, None), Err(200, "ratelimited") }

-----------------------------------------------------------------------------
(* Literal text.  Lit(s) is the literal s of the source with its length; the *)
(* glyphs of the outcome lines are written [v], [!] and [x].  Two texts of   *)
(* the source depend on the installation (the usage help, the path in the    *)
(* invalid-JSON message): they stand here as one run of a nominal length.    *)
(* The reply to `list` with arguments is written without its two back-quotes *)
(* and keeps its length.                                                     *)

LitLen(s) ==
    CASE s = "[x] " -> 2
      [] s = "[v] Invited to " -> 13
      [] s = "[!] Already in " -> 14
      [] s = "<#" -> 2
      [] s = ">" -> 1
      [] s = ": failed to join channel (" -> 26
      [] s = ")" -> 1
      [] s = ": " -> 2
      [] s = ": can't invite. Add SlackAdder to the channel first (private channels require a manual invite)." -> 95
      [] s = "already_in_channel" -> 18
      [] s = "cant_invite" -> 11
      [] s = "not_in_channel" -> 14
      [] s = "method_not_supported_for_channel_type" -> 37
      [] s = "ratelimited" -> 11
      [] s = "channel_not_found" -> 17
      [] s = "missing_scope" -> 13
      [] s = "unknown_error" -> 13
      [] s = "None" -> 4
      [] s = "Unable to process request: missing user or channel info." -> 56
      [] s = "Sorry, you're not authorized to use SlackAdder." -> 47
      [] s = "Sorry, SlackAdder can only be used by full workspace members." -> 61
      [] s = "SlackAdder is missing the users:read scope. An admin needs to reinstall the app with the latest manifest." -> 105
      [] s = "Couldn't verify your account status." -> 36
      [] s = "Sorry, SlackAdder cannot be used in shared or external channels." -> 64
      [] s = "SlackAdder is missing channel read permissions. Ask an admin to reinstall with the latest manifest." -> 99
      [] s = "Couldn't verify this channel." -> 29
      [] s = "No command found after mention" -> 30
      [] s = "The list command does not take any additional arguments." -> 58
      [] s = "No channel groups defined in channel_groups.json." -> 49
      [] s = "Missing bot user ID to invite" -> 29
      [] s = "Couldn't understand which bot to invite. Mention it or provide the user ID." -> 75
      [] s = "Please name channel group(s) and/or channel names." -> 50
      [] s = "Unknown channel or channel group: " -> 34
      [] s = "Channel groups without any valid channels: " -> 43
      [] s = "Could not resolve channels within groups: " -> 42
      [] s = "Channel groups missing channel entries: " -> 40
      [] s = "Channel groups file is not valid JSON" -> 37
      [] s = "Unknown command '" -> 17
      [] s = "'." -> 2
      [] s = "[!] " -> 3
      [] s = "(no description provided)" -> 25
      [] s = "*" -> 1
      [] s = "*: " -> 3
      [] s = "USAGE_HELP" -> 600
      [] s = "Channel groups file must map group names to channel lists" -> 57
      [] s = ": unsupported mimetype " -> 23
      [] s = ": no downloadable URL provided" -> 30
      [] s = ": HTTP error" -> 12
      [] s = ": download failed" -> 17
      [] s = ": file larger than 1000000 bytes" -> 32
      [] s = ": not UTF-8 text" -> 16
      [] s = ": no channel/group entries found" -> 32

Lit(s) == Run(s, LitLen(s))

-----------------------------------------------------------------------------
(* Invitation orchestrator: _invite_bot_to_channels *)

\* (mutant) not_in_channel does not end the channel either
NonFatalJoinErrors_Wide ==
    {"method_not_supported_for_channel_type", "already_in_channel", "not_in_channel"}
\* (mutant) no join error earns the hint
StructuralJoinErrors_None == {}

\* The join errors after which conversations_invite is still called, and the
\* join errors that turn cant_invite into the hint
NonFatalJoinErrors == {"method_not_supported_for_channel_type", "already_in_channel"}
StructuralJoinErrors == {"method_not_supported_for_channel_type", "not_in_channel"}

\* f"<#{channel_id}>"
ChanRef(ch) == <<Lit("<#")>> \o Compress(ch) \o <<Lit(">")>>

JoinFailedLine(ch, err) ==
    <<Lit("[x] ")>> \o ChanRef(ch) \o <<Lit(": failed to join channel ("), Lit(err), Lit(")")>>
InvitedLine(ch) == <<Lit("[v] Invited to ")>> \o ChanRef(ch)
AlreadyLine(ch) == <<Lit("[!] Already in ")>> \o ChanRef(ch)
CantInviteLine(ch) ==
    <<Lit("[x] ")>> \o ChanRef(ch)
    \o <<Lit(": can't invite. Add SlackAdder to the channel first (private channels require a manual invite).")>>
ErrorLine(ch, err) == <<Lit("[x] ")>> \o ChanRef(ch) \o <<Lit(": "), Lit(err)>>

\* (mutant) `attempt` is not reset for the next channel
BeginChannel_KeepAttempt(o, i) ==
    [o EXCEPT !.ch_idx = i,
              !.join_error = None,
              !.pc = IF i > Len(o.channel_ids) THEN "done" ELSE "join"]

\* `for channel_id in channel_ids:` reaching position i, with the locals of
\* the iteration; past the end, `return results`
BeginChannel(o, i) ==
    [o EXCEPT !.ch_idx = i,
              !.join_error = None,
              !.attempt = 0,
              !.pc = IF i > Len(o.channel_ids) THEN "done" ELSE "join"]

\* (mutant) a failed channel ends the whole loop
Break_Abort(o, line) ==
    IF Head(line) = Lit("[x] ")
    THEN [o EXCEPT !.results = Append(@, line), !.pc = "done"]
    ELSE BeginChannel([o EXCEPT !.results = Append(@, line)], o.ch_idx + 1)

\* `results.append(line)` and `break`: on to the next channel
Break(o, line) == BeginChannel([o EXCEPT !.results = Append(@, line)], o.ch_idx + 1)

\* Top of `while True` through the handling of conversations_join's response r
JoinStep(o, r) ==
    LET ch == o.channel_ids[o.ch_idx]
        o1 == [o EXCEPT !.attempt = @ + 1, !.join_error = None,
                        !.joined = @ \cup {o.ch_idx}]
    IN  IF r.ok THEN [o1 EXCEPT !.pc = "invite"]
        ELSE IF r.error \notin NonFatalJoinErrors
             THEN IF _handle_rate_limit(r, o1.attempt)
                  THEN [o1 EXCEPT !.pc = "join"]
                  ELSE Break([o1 EXCEPT !.join_error = r.error],
                             JoinFailedLine(ch, r.error))
             ELSE [o1 EXCEPT !.join_error = r.error, !.pc = "invite"]

\* (mutant) already_in_channel is reported like any other invite error
InviteStep_AlreadyIsError(o, r) ==
    LET ch == o.channel_ids[o.ch_idx]
        error == IF r.error = None THEN "unknown_error" ELSE r.error
    IN  IF r.ok THEN Break(o, InvitedLine(ch))
        ELSE IF _handle_rate_limit(r, o.attempt) THEN [o EXCEPT !.pc = "join"]
        ELSE IF error = "cant_invite" /\ o.join_error \in StructuralJoinErrors
             THEN Break(o, CantInviteLine(ch))
        ELSE Break(o, ErrorLine(ch, error))

\* conversations_invite's response r and its handling
InviteStep(o, r) ==
    LET ch == o.channel_ids[o.ch_idx]
        error == IF r.error = None THEN "unknown_error" ELSE r.error
    IN  IF r.ok THEN Break(o, InvitedLine(ch))
        ELSE IF _handle_rate_limit(r, o.attempt) THEN [o EXCEPT !.pc = "join"]
        ELSE IF error = "already_in_channel" THEN Break(o, AlreadyLine(ch))
        ELSE IF error = "cant_invite" /\ o.join_error \in StructuralJoinErrors
             THEN Break(o, CantInviteLine(ch))
        ELSE Break(o, ErrorLine(ch, error))

\* What conversations_join and conversations_invite may answer: success, a
\* rate-limit signal (by status or by code), or a structured error (for the
\* invite, also one whose body carries no code).
OrcRateLimitResponses == { Err(429, "ratelimited"), Err(200, "ratelimited") }

JoinResponses ==
    {Ok} \cup OrcRateLimitResponses
    \cup { Err(200, c) : c \in {"already_in_channel", "method_not_supported_for_channel_type",
                               "not_in_channel"} }

InviteResponses ==
    {Ok} \cup OrcRateLimitResponses
    \cup { Err(200, c) : c \in {"already_in_channel", "cant_invite", None} }

\* The responses the remote service may give to the call the orchestrator is at
ResponsesAt(o) == IF o.pc = "join" THEN JoinResponses ELSE InviteResponses

\* One remote call of the orchestrator and the handling of its response
OrcStep(o, r) == IF o.pc = "join" THEN JoinStep(o, r) ELSE InviteStep(o, r)

OrcState ==
    [channel_ids |-> channel_ids, ch_idx |-> ch_idx, join_error |-> join_error,
     attempt |-> attempt, results |-> results, pc |-> ipc, joined |-> joined]

SetOrcState(o) ==
    /\ channel_ids' = o.channel_ids
    /\ ch_idx' = o.ch_idx
    /\ join_error' = o.join_error
    /\ attempt' = o.attempt
    /\ results' = o.results
    /\ ipc' = o.pc
    /\ joined' = o.joined

\* Entry of _invite_bot_to_channels: `results = []` and the first channel
OrcEnter(o) == BeginChannel([o EXCEPT !.results = <<>>], 1)

OrcActive(o) == o.pc \in {"join", "invite"}

InviteEnter ==
    /\ ipc = "call"
    /\ SetOrcState(OrcEnter(OrcState))
    /\ UNCHANGED <<batcherVars, pairVars, resolverVars, driverVars, histVars, callVars, threadVars, handlerVars>>

\* The call the orchestrator is at, answered by r
InviteCall(r) ==
    /\ OrcActive(OrcState)
    /\ r \in ResponsesAt(OrcState)
    /\ SetOrcState(OrcStep(OrcState, r))
    /\ last_call' = [op |-> ipc, ok |-> r.ok, error |-> r.error,
                      join_ok |-> IF ipc = "join" THEN r.ok ELSE last_call.join_ok,
                      join_err |-> IF ipc = "join" THEN r.error ELSE last_call.join_err,
                      invites |-> IF ipc = "invite" THEN last_call.invites + 1
                                  ELSE IF attempt = 0 THEN 0 ELSE last_call.invites]
    /\ UNCHANGED <<batcherVars, pairVars, resolverVars, driverVars, group_calls, callVars, threadVars, handlerVars>>

-----------------------------------------------------------------------------
(* Two calls of the orchestrator on the same channel list.  The remote     *)
(* service answers both calls alike, call for call, except at position     *)
(* diff_idx, where each call gets answers of its own.                      *)

PairEnter ==
    /\ ipc = "call"
    /\ SetOrcState(OrcEnter(OrcState))
    /\ twin' = OrcEnter(twin)
    /\ UNCHANGED <<batcherVars, diff_idx, resolverVars, driverVars, histVars, callVars, threadVars, handlerVars>>

\* Both calls are away from diff_idx: the same answer r to both
PairSame(r) ==
    /\ OrcActive(OrcState) /\ OrcActive(twin)
    /\ ch_idx # diff_idx /\ twin.ch_idx # diff_idx
    /\ r \in ResponsesAt(OrcState)
    /\ SetOrcState(OrcStep(OrcState, r))
    /\ twin' = OrcStep(twin, r)
    /\ UNCHANGED <<batcherVars, diff_idx, resolverVars, driverVars, histVars, callVars, threadVars, handlerVars>>

\* The first call alone: it is at diff_idx (or the second call has returned)
PairFirst(r) ==
    /\ OrcActive(OrcState)
    /\ ch_idx = diff_idx \/ twin.pc = "done"
    /\ r \in ResponsesAt(OrcState)
    /\ SetOrcState(OrcStep(OrcState, r))
    /\ UNCHANGED <<batcherVars, pairVars, resolverVars, driverVars, histVars, callVars, threadVars, handlerVars>>

\* The second call alone: it is at diff_idx and the first call is past it (the
\* two calls do not interact, so the first is let through diff_idx first)
PairSecond(r) ==
    /\ OrcActive(twin)
    /\ (twin.ch_idx = diff_idx /\ ch_idx # diff_idx) \/ ipc = "done"
    /\ r \in ResponsesAt(twin)
    /\ twin' = OrcStep(twin, r)
    /\ UNCHANGED <<batcherVars, inviteVars, diff_idx, resolverVars, driverVars, histVars, callVars, threadVars, handlerVars>>

-----------------------------------------------------------------------------
(* Identifier resolver: _extract_channel_id_from_mention,                  *)
(* _channel_name_to_id, _resolve_channel_identifier                        *)

MinIdLen == 9

\* None where a character string is expected (no string has this character)
NoneS == <<"None">>

\* (mutant) the body of the mention is returned as it is spelled
_extract_channel_id_from_mention_AsSpelled(token) ==
    LET tok == strip_chars(token)
        body0 == SubSeq(tok, 3, Len(tok) - 1)
        bar == find(body0, <<"|">>)
        body == IF bar # 0 THEN SubSeq(body0, 1, bar - 1) ELSE body0
        upper_body == upper(body)
    IN  IF ~(startswith(tok, <<"<", "#">>) /\ endswith(tok, <<">">>)) THEN NoneS
        ELSE IF startswith(upper_body, <<"C">>) \/ startswith(upper_body, <<"G">>)
             THEN body
        ELSE NoneS

\* _extract_channel_id_from_mention(token): the identifier, or NoneS
_extract_channel_id_from_mention(token) ==
    LET tok == strip_chars(token)
        body0 == SubSeq(tok, 3, Len(tok) - 1)
        bar == find(body0, <<"|">>)
        body == IF bar # 0 THEN SubSeq(body0, 1, bar - 1) ELSE body0
        upper_body == upper(body)
    IN  IF ~(startswith(tok, <<"<", "#">>) /\ endswith(tok, <<">">>)) THEN NoneS
        ELSE IF startswith(upper_body, <<"C">>) \/ startswith(upper_body, <<"G">>)
             THEN upper_body
        ELSE NoneS

\* dict.get(key): the cached value, or NoneS
CacheGet(cache, key) == IF key \in DOMAIN cache THEN cache[key] ELSE NoneS

\* (mutant) the cache is rebuilt from the page: what it held is dropped
CachePage_Rebuilt(cache, channels) ==
    [k \in { lower(channels[i].name) : i \in 1..Len(channels) } |->
        channels[CHOOSE i \in 1..Len(channels) :
                    /\ lower(channels[i].name) = k
                    /\ \A j \in (i + 1)..Len(channels) : lower(channels[j].name) # k].id]

\* `for channel in response["channels"]: _CHANNEL_CACHE[name.lower()] = id`
RECURSIVE CachePage(_, _)
CachePage(cache, channels) ==
    IF channels = <<>> THEN cache
    ELSE CachePage([k \in DOMAIN cache \cup {lower(Head(channels).name)} |->
                        IF k = lower(Head(channels).name) THEN Head(channels).id
                        ELSE cache[k]],
                   Tail(channels))

\* (mutant) a name is listed for without a look at the cache
ResolveLocally_NoCacheCheck(token, cache) ==
    LET tok == strip_chars(token)
        mention_id == _extract_channel_id_from_mention(tok)
        upper_token == upper(tok)
        name == lower(lstrip_char(tok, "#"))
    IN  IF mention_id # NoneS THEN [done |-> TRUE, value |-> mention_id]
        ELSE IF startswith(upper_token, <<"C">>) \/ startswith(upper_token, <<"G">>)
             THEN [done |-> TRUE,
                   value |-> IF Len(upper_token) >= MinIdLen THEN upper_token ELSE NoneS]
        ELSE IF name = <<>> THEN [done |-> TRUE, value |-> NoneS]
        ELSE [done |-> FALSE, name |-> name]

\* (mutant) a cached name is looked for before the raw-identifier rule
ResolveLocally_NameFirst(token, cache) ==
    LET tok == strip_chars(token)
        mention_id == _extract_channel_id_from_mention(tok)
        upper_token == upper(tok)
        normalized == lstrip_char(tok, "#")
        name == lower(lstrip_char(normalized, "#"))
    IN  IF mention_id # NoneS /\ mention_id # <<>> THEN [done |-> TRUE, value |-> mention_id]
        ELSE IF name # <<>> /\ name \in DOMAIN cache THEN [done |-> TRUE, value |-> cache[name]]
        ELSE IF startswith(upper_token, <<"C">>) \/ startswith(upper_token, <<"G">>)
             THEN [done |-> TRUE,
                   value |-> IF Len(upper_token) >= MinIdLen THEN upper_token ELSE NoneS]
        ELSE IF normalized = <<>> THEN [done |-> TRUE, value |-> NoneS]
        ELSE IF name = <<>> THEN [done |-> TRUE, value |-> NoneS]
        ELSE [done |-> FALSE, name |-> name]

\* (mutant) an identifier-like token is returned whatever its length
ResolveLocally_AnyLength(token, cache) ==
    LET tok == strip_chars(token)
        mention_id == _extract_channel_id_from_mention(tok)
        upper_token == upper(tok)
        normalized == lstrip_char(tok, "#")
        name == lower(lstrip_char(normalized, "#"))
    IN  IF mention_id # NoneS /\ mention_id # <<>> THEN [done |-> TRUE, value |-> mention_id]
        ELSE IF startswith(upper_token, <<"C">>) \/ startswith(upper_token, <<"G">>)
             THEN [done |-> TRUE, value |-> upper_token]
        ELSE IF normalized = <<>> THEN [done |-> TRUE, value |-> NoneS]
        ELSE IF name = <<>> THEN [done |-> TRUE, value |-> NoneS]
        ELSE IF name \in DOMAIN cache THEN [done |-> TRUE, value |-> cache[name]]
        ELSE [done |-> FALSE, name |-> name]

\* What _resolve_channel_identifier(token) decides before any remote call:
\* [done |-> TRUE, value |-> an identifier or NoneS], or
\* [done |-> FALSE, name |-> the name _channel_name_to_id has to list for]
ResolveLocally(token, cache) ==
    LET tok == strip_chars(token)
        mention_id == _extract_channel_id_from_mention(tok)
        upper_token == upper(tok)
        normalized == lstrip_char(tok, "#")
        name == lower(lstrip_char(normalized, "#"))
    IN  IF mention_id # NoneS /\ mention_id # <<>> THEN [done |-> TRUE, value |-> mention_id]
        ELSE IF startswith(upper_token, <<"C">>) \/ startswith(upper_token, <<"G">>)
             THEN [done |-> TRUE,
                   value |-> IF Len(upper_token) >= MinIdLen THEN upper_token ELSE NoneS]
        ELSE IF normalized = <<>> THEN [done |-> TRUE, value |-> NoneS]
        ELSE IF name = <<>> THEN [done |-> TRUE, value |-> NoneS]
        ELSE IF name \in DOMAIN cache THEN [done |-> TRUE, value |-> cache[name]]
        ELSE [done |-> FALSE, name |-> name]

\* The listing's answer to conversations_list(cursor=c): page 1 for None, page
\* c otherwise, with the cursor of the page after it (0, none, on the last)
Page(dir, c) ==
    LET k == IF c = 0 THEN 1 ELSE c
    IN  [channels |-> IF k <= Len(dir) THEN dir[k] ELSE <<>>,
         next_cursor |-> IF k < Len(dir) THEN k + 1 ELSE 0]

OkWith(d) == [ok |-> TRUE, status |-> 200, error |-> None, data |-> d]

\* An answer to conversations_list(cursor=c) that holds no channel and hands
\* out one more cursor, to a page past the pages of dir: a listing that does
\* not end.  Two such cursors stand for all of them.
MorePage(dir, c) ==
    [channels |-> <<>>,
     next_cursor |-> IF c = Len(dir) + 1 THEN Len(dir) + 2 ELSE Len(dir) + 1]

ListResponses(dir, c) ==
    { OkWith(Page(dir, c)), OkWith(MorePage(dir, c)),
      Err(200, "fatal_error"), Err(429, "ratelimited") }

\* `fetches` counts the conversations_list calls of a resolution up to
\* MaxFetches and stays there: what is asked of it is 0, 1 or more
MaxFetches == 2

\* `return _CHANNEL_CACHE.get(channel_name)` once the cursor is exhausted
ListDone(cache, name) == [cache |-> cache, value |-> CacheGet(cache, name)]

\* _resolve_channel_identifier(rtoken) up to its first remote call
ResolveStart ==
    /\ rpc = "start"
    /\ LET d == ResolveLocally(rtoken, CHANNEL_CACHE)
       IN  IF d.done
           THEN /\ rresult' = d.value
                /\ rpc' = "done"
                /\ UNCHANGED <<channel_name, cursor>>
           ELSE /\ channel_name' = d.name
                /\ cursor' = 0
                /\ rpc' = "listing"
                /\ UNCHANGED rresult
    /\ fetches' = 0
    /\ UNCHANGED <<CHANNEL_CACHE, directory, rtoken>>
    /\ UNCHANGED <<resolutions, histVars, callVars, threadVars, batcherVars, inviteVars, pairVars, handlerVars>>

\* One pass of the `while True` of _channel_name_to_id: conversations_list
\* answered by r
ListPage(r) ==
    /\ rpc = "listing"
    /\ r \in ListResponses(directory, cursor)
    /\ fetches' = IF fetches < MaxFetches THEN fetches + 1 ELSE fetches
    /\ IF ~r.ok
       THEN /\ rresult' = NoneS
            /\ rpc' = "done"
            /\ UNCHANGED <<CHANNEL_CACHE, cursor>>
       ELSE LET cached == CachePage(CHANNEL_CACHE, r.data.channels)
            IN  IF r.data.next_cursor # 0
                THEN /\ CHANNEL_CACHE' = cached
                     /\ cursor' = r.data.next_cursor
                     /\ UNCHANGED <<rresult, rpc>>
                ELSE /\ CHANNEL_CACHE' = ListDone(cached, channel_name).cache
                     /\ rresult' = ListDone(cached, channel_name).value
                     /\ rpc' = "done"
                     /\ UNCHANGED cursor
    /\ UNCHANGED <<directory, rtoken, channel_name>>
    /\ UNCHANGED <<resolutions, histVars, callVars, threadVars, batcherVars, inviteVars, pairVars, handlerVars>>

-----------------------------------------------------------------------------
(* A caller that resolves one token twice in a row *)

ResolveCall ==
    /\ rpc = "idle"
    /\ Len(resolutions) < 2
    /\ rpc' = "start"
    /\ UNCHANGED <<CHANNEL_CACHE, directory, rtoken, channel_name, cursor, rresult, fetches>>
    /\ UNCHANGED <<resolutions, histVars, callVars, threadVars, batcherVars, inviteVars, pairVars, handlerVars>>

ResolveReturn ==
    /\ rpc = "done"
    /\ resolutions' = Append(resolutions, [value |-> rresult, fetches |-> fetches])
    /\ rpc' = "idle"
    /\ UNCHANGED <<CHANNEL_CACHE, directory, rtoken, channel_name, cursor, rresult, fetches>>
    /\ UNCHANGED <<batcherVars, inviteVars, pairVars, handlerVars, histVars, callVars, threadVars>>

-----------------------------------------------------------------------------
(* More of the string library: joins, ordering, replacement *)

\* sep.join(parts) on character sequences
RECURSIVE join(_, _)
join(sep, parts) ==
    IF parts = <<>> THEN <<>>
    ELSE IF Len(parts) = 1 THEN parts[1]
    ELSE join(sep, FirstHalf(parts)) \o sep \o join(sep, SecondHalf(parts))

\* The characters in use, in code-point order
CodePoints ==
    <<" ", "#", "'", "(", ")", "*", ",", "-", ".", "/",
      "0", "1", "2", "3", "4", "5", "6", "7", "8", "9", ":", "<", ">", "@">>
    \o UpperChars \o <<"_">> \o LowerChars \o <<"|">>
CodePoint(c) == CHOOSE i \in 1..Len(CodePoints) : CodePoints[i] = c

\* a < b on str
StrLess(a, b) ==
    \E i \in 1..(Len(b)) :
        /\ i <= Len(a) + 1
        /\ SubSeq(a, 1, i - 1) = SubSeq(b, 1, i - 1)
        /\ (i = Len(a) + 1 \/ CodePoint(a[i]) < CodePoint(b[i]))

\* sorted(s) on a list of str
sorted(s) ==
    LET rank(i) == Cardinality({ j \in 1..Len(s) :
                                   StrLess(s[j], s[i]) \/ (s[j] = s[i] /\ j < i) }) + 1
    IN  [k \in 1..Len(s) |-> s[CHOOSE i \in 1..Len(s) : rank(i) = k]]

\* sorted(S) on a set (or the keys of a dict) of str
sorted_set(S) ==
    [k \in 1..Cardinality(S) |->
        CHOOSE x \in S : Cardinality({ y \in S : StrLess(y, x) }) = k - 1]

\* str.replace(a, b) for single characters
replace_char(s, a, b) == [i \in 1..Len(s) |-> IF s[i] = a THEN b ELSE s[i]]

\* [x for x in s if x]
truthy(s) == SelectSeq(s, LAMBDA x : x # <<>>)

-----------------------------------------------------------------------------
(* Configuration read at start-up, and the channel groups file *)

BOT_USER_ID == <<"U", "B", "0", "T">>
BOT_MENTION == <<"<", "@">> \o BOT_USER_ID \o <<">">>
USAGE_HELP == <<Lit("USAGE_HELP")>>

\* Optional values: <<>> is None, <<v>> is the value v
Some(v) == <<v>>
Nothing == <<>>

\* The file at CHANNEL_GROUPS_PATH: absent, not JSON, JSON that is no object,
\* or an object, given as the sequence of its (name, value) pairs; a value is
\* a list, an object (with or without a list under "channels" and a string
\* under "description"), or anything else.
NoFile == [kind |-> "missing", entries |-> <<>>]
BadJson == [kind |-> "invalid", entries |-> <<>>]
NotObject == [kind |-> "not_object", entries |-> <<>>]
Object(entries) == [kind |-> "object", entries |-> entries]
ListValue(items) == [type |-> "list", channels |-> Some(items), description |-> Nothing]
DictValue(chs, desc) == [type |-> "dict", channels |-> chs, description |-> desc]
OtherValue == [type |-> "other", channels |-> Nothing, description |-> Nothing]
Entry(name, raw) == [name |-> name, raw |-> raw]

\* `channels_list` of one entry
channels_list(raw) ==
    IF raw.type \in {"dict", "list"} /\ raw.channels # Nothing
    THEN Some(truthy(raw.channels[1]))
    ELSE Nothing

EmptyMap == [k \in {} |-> <<>>]

\* _load_channel_groups(): the three maps, or the ValueError raised
_load_channel_groups(file) ==
    LET es == file.entries
        listed(e) == channels_list(e.raw) # Nothing
        described(e) == e.raw.type = "dict" /\ e.raw.description # Nothing
        empty_groups == SelectSeq(es, LAMBDA e : channels_list(e.raw) \in {Nothing, Some(<<>>)})
        keys == { lower(es[i].name) : i \in { j \in 1..Len(es) : listed(es[j]) } }
        dkeys == { lower(es[i].name) : i \in { j \in 1..Len(es) : described(es[j]) } }
        last(k) == es[Max({ i \in 1..Len(es) : listed(es[i]) /\ lower(es[i].name) = k })]
        dlast(k) == es[Max({ i \in 1..Len(es) : described(es[i]) /\ lower(es[i].name) = k })]
        fail(msg) == [ok |-> FALSE, error |-> msg, groups |-> EmptyMap,
                      descriptions |-> EmptyMap, display_names |-> EmptyMap]
    IN  IF file.kind = "missing"
        THEN [ok |-> TRUE, error |-> <<>>, groups |-> EmptyMap,
              descriptions |-> EmptyMap, display_names |-> EmptyMap]
        ELSE IF file.kind = "invalid"
        THEN fail(<<Lit("Channel groups file is not valid JSON")>>)
        ELSE IF file.kind = "not_object"
        THEN fail(<<Lit("Channel groups file must map group names to channel lists")>>)
        ELSE IF empty_groups # <<>>
        THEN fail(<<Lit("Channel groups missing channel entries: ")>>
                  \o Compress(join(<<",", " ">>,
                                   [i \in 1..Len(empty_groups) |-> empty_groups[i].name])))
        ELSE [ok |-> TRUE, error |-> <<>>,
              groups |-> [k \in keys |-> channels_list(last(k).raw)[1]],
              descriptions |-> [k \in dkeys |-> strip_chars(dlast(k).raw.description[1])],
              display_names |-> [k \in keys |-> last(k).name]]

-----------------------------------------------------------------------------
(* Attached files: _extract_tokens_from_files *)

\* A file object of the event and what fetching it gives: `fetch` is "ok",
\* "HTTPError", "URLError", "too_large" or "not_utf8"; `text` is the decoded
\* content.
File(name, mimetype, url, fetch, text) ==
    [name |-> name, mimetype |-> mimetype, url |-> url, fetch |-> fetch, text |-> text]

\* The error reported for one file, or Nothing
FileError(f) ==
    LET tell(s) == Some(Compress(f.name) \o <<Lit(s)>>)
    IN  IF f.mimetype # <<>> /\ ~startswith(f.mimetype, <<"t", "e", "x", "t", "/">>)
        THEN Some(Compress(f.name) \o <<Lit(": unsupported mimetype ")>> \o Compress(f.mimetype))
        ELSE IF f.url = Nothing THEN tell(": no downloadable URL provided")
        ELSE IF f.fetch = "HTTPError" THEN tell(": HTTP error")
        ELSE IF f.fetch = "URLError" THEN tell(": download failed")
        ELSE IF f.fetch = "too_large" THEN tell(": file larger than 1000000 bytes")
        ELSE IF f.fetch = "not_utf8" THEN tell(": not UTF-8 text")
        ELSE IF split(replace_char(f.text, ",", " ")) = <<>>
        THEN tell(": no channel/group entries found")
        ELSE Nothing

RECURSIVE Concat(_)
Concat(ss) ==
    IF ss = <<>> THEN <<>>
    ELSE IF Len(ss) = 1 THEN ss[1]
    ELSE Concat(FirstHalf(ss)) \o Concat(SecondHalf(ss))

\* _extract_tokens_from_files(files): (tokens, errors)
_extract_tokens_from_files(files) ==
    LET good == SelectSeq(files, LAMBDA f : FileError(f) = Nothing)
        bad == SelectSeq(files, LAMBDA f : FileError(f) # Nothing)
    IN  [tokens |-> Concat([i \in 1..Len(good) |-> split(replace_char(good[i].text, ",", " "))]),
         errors |-> [i \in 1..Len(bad) |-> FileError(bad[i])[1]]]

-----------------------------------------------------------------------------
(* Command text and arguments *)

\* _strip_bot_mention(text)
_strip_bot_mention(text) == strip_chars(remove_first(text, BOT_MENTION))

\* _parse_command_text(text): (command, args), or the ValueError raised
_parse_command_text(text) ==
    LET cleaned == _strip_bot_mention(text)
        parts == split(cleaned)
    IN  IF cleaned = <<>> \/ parts = <<>>
        THEN [ok |-> FALSE, error |-> <<Lit("No command found after mention")>>,
              command |-> <<>>, args |-> <<>>]
        ELSE [ok |-> TRUE, error |-> <<>>, command |-> lower(parts[1]), args |-> Tail(parts)]

IsUpperOrDigit(c) ==
    \/ \E i \in 1..26 : UpperChars[i] = c
    \/ c \in {"0", "1", "2", "3", "4", "5", "6", "7", "8", "9"}

\* USER_MENTION_RE.fullmatch(token): <@(U[A-Z0-9]+)(?:\|[^>]+)?> ; the group, or
\* Nothing
UserMention(tok) ==
    LET n == Len(tok)
        body == SubSeq(tok, 3, n - 1)
        bars == { i \in 1..Len(body) : body[i] = "|" }
        id == IF bars = {} THEN body ELSE SubSeq(body, 1, Min(bars) - 1)
        label == IF bars = {} THEN <<>> ELSE SubSeq(body, Min(bars) + 1, Len(body))
    IN  IF /\ n >= 3
           /\ startswith(tok, <<"<", "@">>)
           /\ tok[n] = ">"
           /\ Len(id) >= 2
           /\ id[1] = "U"
           /\ \A i \in 2..Len(id) : IsUpperOrDigit(id[i])
           /\ (bars # {} => label # <<>>)
           /\ \A i \in 1..Len(label) : label[i] # ">"
        THEN Some(id)
        ELSE Nothing

\* _resolve_user_identifier(token)
_resolve_user_identifier(token) ==
    LET tok == strip_chars(token)
    IN  IF UserMention(tok) # Nothing THEN UserMention(tok)
        ELSE IF startswith(upper(tok), <<"U">>) THEN Some(upper(tok))
        ELSE Nothing

-----------------------------------------------------------------------------
(* The authorization gate: handle_app_mention up to _parse_command_text,   *)
(* with _is_guest_user and _is_external_channel                            *)

Reject(s, msg, step) == [hpc |-> "done", said |-> Append(s, msg), rejected_at |-> step]

\* (mutant) a shared channel passes
AfterExternal_Open(s, is_external, msg) ==
    [hpc |-> "command", said |-> s, rejected_at |-> "none"]

\* `if is_external_command_channel: say(...); return`
AfterExternal(s, is_external, msg) ==
    IF is_external
    THEN Reject(s, IF msg # Nothing THEN msg[1]
                   ELSE <<Lit("Sorry, SlackAdder cannot be used in shared or external channels.")>>,
                "external")
    ELSE [hpc |-> "command", said |-> s, rejected_at |-> "none"]

AnyFlag(flags) == \E i \in 1..Len(flags) : flags[i]

\* _is_external_channel(channel_id) up to its first remote call
ExternalEntry(e, s, ccache) ==
    IF startswith(e.channel, <<"D">>) THEN AfterExternal(s, TRUE, Nothing)
    ELSE IF e.channel \in DOMAIN ccache
    THEN AfterExternal(s, AnyFlag(ccache[e.channel]), Nothing)
    ELSE [hpc |-> "conversations_info", said |-> s, rejected_at |-> "none"]

\* (mutant) a guest passes
AfterGuest_Open(e, s, is_guest, msg, ccache) == ExternalEntry(e, s, ccache)

\* `if is_guest: say(...); return`, then the external-channel check
AfterGuest(e, s, is_guest, msg, ccache) ==
    IF is_guest
    THEN Reject(s, IF msg # Nothing THEN msg[1]
                   ELSE <<Lit("Sorry, SlackAdder can only be used by full workspace members.")>>,
                "guest")
    ELSE ExternalEntry(e, s, ccache)

\* (mutant) the cached flags are not consulted
GuestEntry_NoCache(e, s, ucache, ccache) ==
    [hpc |-> "users_info", said |-> s, rejected_at |-> "none"]

\* _is_guest_user(user_id) up to its first remote call
GuestEntry(e, s, ucache, ccache) ==
    IF e.user \in DOMAIN ucache
    THEN AfterGuest(e, s, AnyFlag(ucache[e.user]), Nothing, ccache)
    ELSE [hpc |-> "users_info", said |-> s, rejected_at |-> "none"]

\* (mutant) the allow-list is not consulted
AllowListed_Anyone(allowed, user) == TRUE

\* `ALLOWED_USERS is not None and user_id.upper() not in ALLOWED_USERS`, negated
AllowListed(allowed, user) == allowed = Nothing \/ upper(user) \in allowed[1]

\* The handler from its entry to the first remote call or to its return
GateEntry(e, allowed, ucache, ccache) ==
    IF e.user = <<>> \/ e.channel = <<>>
    THEN Reject(<<>>, <<Lit("Unable to process request: missing user or channel info.")>>,
                "malformed")
    ELSE IF ~AllowListed(allowed, e.user)
    THEN Reject(<<>>, <<Lit("Sorry, you're not authorized to use SlackAdder.")>>, "allow_list")
    ELSE GuestEntry(e, <<>>, ucache, ccache)

\* (mutant) an error without a permission cause admits the user
GuestErrorVerdict_Open(r) == [is_guest |-> FALSE, msg |-> Nothing]

\* The `except SlackApiError` branch of _is_guest_user once retrying is over
GuestErrorVerdict(r) ==
    IF r.error = "missing_scope"
    THEN [is_guest |-> TRUE,
          msg |-> Some(<<Lit("SlackAdder is missing the users:read scope. An admin needs to reinstall the app with the latest manifest.")>>)]
    ELSE [is_guest |-> TRUE, msg |-> Some(<<Lit("Couldn't verify your account status.")>>)]

\* The `except SlackApiError` branch of _is_external_channel
ChannelErrorVerdict(r) ==
    IF r.error = "missing_scope"
    THEN [is_external |-> TRUE,
          msg |-> Some(<<Lit("SlackAdder is missing channel read permissions. Ask an admin to reinstall with the latest manifest.")>>)]
    ELSE [is_external |-> TRUE, msg |-> Some(<<Lit("Couldn't verify this channel.")>>)]

\* What users_info and conversations_info may answer: the three flags of the
\* user or channel, a rate-limit signal, a missing scope, another error with
\* or without a code
FlagSets == { <<FALSE, FALSE, FALSE>>, <<TRUE, FALSE, FALSE>>, <<FALSE, FALSE, TRUE>> }
LookupResponses ==
    { OkWith(f) : f \in FlagSets } \cup RateLimitResponses
    \cup { Err(200, "missing_scope"), Err(200, "user_not_found"), Err(500, None) }

Brief(r) == [ok |-> r.ok, status |-> r.status, error |-> r.error]
NoResponse == [ok |-> TRUE, status |-> 0, error |-> None]
NoCall ==
    [op |-> "none", ok |-> TRUE, error |-> None, join_ok |-> TRUE, join_err |-> None,
     invites |-> 0]

Ev(text, user, channel, files) ==
    [text |-> text, user |-> user, channel |-> channel, files |-> files]
NoEvent == Ev(<<>>, <<>>, <<>>, <<>>)

XtIdle ==
    [target_bot |-> <<>>, channel_groups |-> EmptyMap, tokens |-> <<>>, i |-> 0,
     group |-> Nothing, j |-> 0, resolved |-> <<>>, missing |-> <<>>,
     channel_ids |-> <<>>, unknown_tokens |-> <<>>, empty_groups |-> <<>>,
     missing_channels |-> <<>>, resolved_groups |-> EmptyMap]

\* The locals of the handling of one event, as they are before it starts
FreshLocals ==
    /\ lines' = <<>>
    /\ line_idx' = 0
    /\ batch' = <<>>
    /\ char_count' = 0
    /\ bpc' = "idle"
    /\ channel_ids' = <<>>
    /\ ch_idx' = 0
    /\ join_error' = None
    /\ attempt' = 0
    /\ results' = <<>>
    /\ ipc' = "idle"
    /\ joined' = {}
    /\ rtoken' = <<>>
    /\ channel_name' = <<>>
    /\ cursor' = 0
    /\ rresult' = NoneS
    /\ fetches' = 0
    /\ rpc' = "idle"
    /\ xt' = XtIdle
    /\ lookup_attempt' = 0
    /\ last_resp' = NoResponse
    /\ slept' = 0
    /\ reached' = {}

SetGate(g) ==
    /\ hpc' = g.hpc
    /\ said' = g.said
    /\ rejected_at' = g.rejected_at

\* An app_mention event arrives: the handler runs to its first remote call
Receive(e) ==
    /\ hpc = "idle"
    /\ event' = e
    /\ SetGate(GateEntry(e, ALLOWED_USERS, USER_INFO_CACHE, CHANNEL_INFO_CACHE))
    /\ UNCHANGED <<ALLOWED_USERS, USER_INFO_CACHE, CHANNEL_INFO_CACHE, xt,
                   lookup_attempt, last_resp, slept, reached>>
    /\ UNCHANGED <<lines, line_idx, batch, char_count, bpc>>
    /\ UNCHANGED <<inviteVars, pairVars, resolverVars, driverVars, histVars, callVars, threadVars>>

\* The handler has returned: its locals and those of its callees are gone,
\* the caches stay
HandlerReturn ==
    /\ hpc = "done"
    /\ hpc' = "idle"
    /\ event' = NoEvent
    /\ said' = <<>>
    /\ rejected_at' = "none"
    /\ FreshLocals
    /\ group_calls' = <<>>
    /\ last_call' = NoCall
    /\ UNCHANGED <<ALLOWED_USERS, USER_INFO_CACHE, CHANNEL_INFO_CACHE, CHANNEL_CACHE, directory>>
    /\ UNCHANGED <<pairVars, driverVars, callVars, threadVars>>

\* The locals of the lookup: they stay while it goes on and when the handler
\* returns from it; the answer to the latest call is kept for the record
LookupLocals(retry, g, a, r) ==
    /\ lookup_attempt' = IF retry \/ g.hpc = "done" THEN a ELSE 0
    /\ last_resp' = Brief(r)
    /\ slept' = IF retry THEN slept + 1 ELSE IF g.hpc = "done" THEN slept ELSE 0

\* (mutant) the verdict of a failed lookup is cached as a flag
CacheAfter_FailureToo(cache, key, r) ==
    [k \in DOMAIN cache \cup {key} |->
        IF k # key THEN cache[k] ELSE IF r.ok THEN r.data ELSE <<TRUE, FALSE, FALSE>>]

\* `_USER_INFO_CACHE[user_id] = flags` / `_CHANNEL_INFO_CACHE[channel_id] =
\* summary`, which only an answered lookup gets to
CacheAfter(cache, key, r) ==
    IF r.ok THEN [k \in DOMAIN cache \cup {key} |-> IF k = key THEN r.data ELSE cache[k]]
    ELSE cache

\* One pass of the `while True` of _is_guest_user: users_info answered by r
UsersInfo(r) ==
    /\ hpc = "users_info"
    /\ r \in LookupResponses
    /\ reached' = reached \cup {"users_info"}
    /\ LET a == lookup_attempt + 1
           retry == ~r.ok /\ _handle_rate_limit(r, a)
           ucache == CacheAfter(USER_INFO_CACHE, event.user, r)
           v == IF r.ok THEN [is_guest |-> AnyFlag(r.data), msg |-> Nothing]
                ELSE GuestErrorVerdict(r)
           g == IF retry THEN [hpc |-> hpc, said |-> said, rejected_at |-> rejected_at]
                ELSE AfterGuest(event, said, v.is_guest, v.msg, CHANNEL_INFO_CACHE)
       IN  /\ USER_INFO_CACHE' = ucache
           /\ SetGate(g)
           /\ LookupLocals(retry, g, a, r)
    /\ UNCHANGED <<ALLOWED_USERS, CHANNEL_INFO_CACHE, event, xt>>
    /\ UNCHANGED <<lines, line_idx, batch, char_count, bpc>>
    /\ UNCHANGED <<inviteVars, pairVars, resolverVars, driverVars, histVars, callVars, threadVars>>

\* One pass of the `while True` of _is_external_channel: conversations_info
\* answered by r
ConversationsInfo(r) ==
    /\ hpc = "conversations_info"
    /\ r \in LookupResponses
    /\ reached' = reached \cup {"conversations_info"}
    /\ LET a == lookup_attempt + 1
           retry == ~r.ok /\ _handle_rate_limit(r, a)
           ccache == CacheAfter(CHANNEL_INFO_CACHE, event.channel, r)
           v == IF r.ok THEN [is_external |-> AnyFlag(r.data), msg |-> Nothing]
                ELSE ChannelErrorVerdict(r)
           g == IF retry THEN [hpc |-> hpc, said |-> said, rejected_at |-> rejected_at]
                ELSE AfterExternal(said, v.is_external, v.msg)
       IN  /\ CHANNEL_INFO_CACHE' = ccache
           /\ SetGate(g)
           /\ LookupLocals(retry, g, a, r)
    /\ UNCHANGED <<ALLOWED_USERS, USER_INFO_CACHE, event, xt>>
    /\ UNCHANGED <<lines, line_idx, batch, char_count, bpc>>
    /\ UNCHANGED <<inviteVars, pairVars, resolverVars, driverVars, histVars, callVars, threadVars>>

-----------------------------------------------------------------------------
(* Commands: handle_app_mention from _parse_command_text on *)

\* say(f"[!] {error_message}") for every file error, in order
FileWarnings(errors) == [i \in 1..Len(errors) |-> <<Lit("[!] ")>> \o errors[i]]

\* The lines of the `list` reply
ListLines(g) ==
    LET keys == sorted_set(DOMAIN g.display_names)
        description(k) == IF k \in DOMAIN g.descriptions /\ strip_chars(g.descriptions[k]) # <<>>
                          THEN Compress(strip_chars(g.descriptions[k]))
                          ELSE <<Lit("(no description provided)")>>
    IN  [i \in 1..Len(keys) |->
            <<Lit("*")>> \o Compress(g.display_names[keys[i]]) \o <<Lit("*: ")>>
            \o description(keys[i])]

\* The ValueError of _parse_add_arguments for a first argument that names no user
BadTarget == <<Lit("Couldn't understand which bot to invite. Mention it or provide the user ID.")>>

\* f"Unknown command '{command}'.\n" + USAGE_HELP
UnknownCommand(command) ==
    <<Lit("Unknown command '")>> \o Compress(command) \o <<Lit("'.")>> \o <<NL>> \o USAGE_HELP

\* str(error) + "\n" + USAGE_HELP
WithUsage(msg) == msg \o <<NL>> \o USAGE_HELP

\* What the handler does from _parse_command_text to the call of
\* _extract_channel_ids, of _send_batched_messages, or to its return: the
\* replies, the stages reached, the next position, and the locals of the call
\* it goes to.  p is what _parse_command_text returned, fx what
\* _extract_tokens_from_files returned, warned the warnings said for the
\* files, g what _load_channel_groups returns.
CommandOf(p, fx, warned, g) ==
    LET all_args == p.args \o fx.tokens
        target_bot == IF all_args = <<>> THEN Nothing ELSE _resolve_user_identifier(all_args[1])
        out(pc, msgs, stages, ls, x) ==
            [hpc |-> pc, said |-> msgs, reached |-> {"parse"} \cup stages, lines |-> ls, xt |-> x]
    IN  IF ~p.ok THEN out("done", <<WithUsage(p.error)>>, {}, <<>>, XtIdle)
        ELSE IF p.command \in {<<>>, <<"h", "e", "l", "p">>}
        THEN out("done", Append(warned, USAGE_HELP), {"files"}, <<>>, XtIdle)
        ELSE IF p.command = <<"l", "i", "s", "t">>
        THEN IF ~g.ok THEN out("done", Append(warned, g.error), {"files", "load_groups"}, <<>>, XtIdle)
             ELSE IF p.args # <<>>
             THEN out("done",
                      Append(warned, <<Lit("The list command does not take any additional arguments.")>>),
                      {"files", "load_groups"}, <<>>, XtIdle)
             ELSE IF DOMAIN g.display_names = {}
             THEN out("done",
                      Append(warned, <<Lit("No channel groups defined in channel_groups.json.")>>),
                      {"files", "load_groups"}, <<>>, XtIdle)
             ELSE out("reply", warned, {"files", "load_groups"}, ListLines(g), XtIdle)
        ELSE IF p.command = <<"a", "d", "d">>
        THEN IF ~g.ok THEN out("done", Append(warned, g.error), {"files", "load_groups"}, <<>>, XtIdle)
             ELSE IF all_args = <<>>
             THEN out("done", Append(warned, WithUsage(<<Lit("Missing bot user ID to invite")>>)),
                      {"files", "load_groups"}, <<>>, XtIdle)
             ELSE IF target_bot = Nothing
             THEN out("done",
                      Append(warned, WithUsage(BadTarget)),
                      {"files", "load_groups"}, <<>>, XtIdle)
             ELSE IF Tail(all_args) = <<>>
             THEN out("done",
                      Append(warned, WithUsage(<<Lit("Please name channel group(s) and/or channel names.")>>)),
                      {"files", "load_groups"}, <<>>, XtIdle)
             ELSE out("extract", warned, {"files", "load_groups"}, <<>>,
                      [XtIdle EXCEPT !.target_bot = target_bot[1], !.channel_groups = g.groups,
                                     !.tokens = Tail(all_args), !.i = 1])
        ELSE out("done",
                 Append(warned, UnknownCommand(p.command)),
                 {"files"}, <<>>, XtIdle)

\* The same, for the event e with `file` at CHANNEL_GROUPS_PATH
Command(e, file) ==
    CommandOf(_parse_command_text(e.text),
              _extract_tokens_from_files(e.files),
              FileWarnings(_extract_tokens_from_files(e.files).errors),
              _load_channel_groups(file))

SetCommand(c) ==
    /\ hpc' = c.hpc
    /\ said' = said \o c.said
    /\ reached' = reached \cup c.reached
    /\ lines' = c.lines
    /\ bpc' = IF c.hpc = "reply" THEN "call" ELSE bpc
    /\ xt' = c.xt

\* The gate is passed: the command is parsed and dispatched
Dispatch(file) ==
    /\ hpc = "command"
    /\ SetCommand(Command(event, file))
    /\ UNCHANGED <<ALLOWED_USERS, USER_INFO_CACHE, CHANNEL_INFO_CACHE, event,
                   lookup_attempt, last_resp, slept, rejected_at>>
    /\ UNCHANGED <<line_idx, batch, char_count>>
    /\ UNCHANGED <<inviteVars, pairVars, resolverVars, driverVars, histVars, callVars, threadVars>>

-----------------------------------------------------------------------------
(* _extract_channel_ids and _resolve_group_channels, one step per stretch  *)
(* between two calls of _resolve_channel_identifier                        *)

ExtractFrame ==
    /\ UNCHANGED <<ALLOWED_USERS, USER_INFO_CACHE, CHANNEL_INFO_CACHE, event,
                   lookup_attempt, last_resp, slept, rejected_at>>
    /\ UNCHANGED <<batcherVars, pairVars, driverVars, last_call, callVars, threadVars>>
    /\ UNCHANGED <<CHANNEL_CACHE, directory, channel_name, cursor, fetches>>

\* The token the loop of _extract_channel_ids is at, when it is at one
AtToken == hpc = "extract" /\ rpc = "idle" /\ xt.group = Nothing /\ xt.i <= Len(xt.tokens)
Token == xt.tokens[xt.i]

\* The effect of one group token on the accumulators, given what its group
\* resolved to
TakeGroup(x, token, res) ==
    [x EXCEPT !.channel_ids = IF res.resolved # <<>> THEN @ \o res.resolved ELSE @,
              !.empty_groups = IF res.resolved # <<>> THEN @ ELSE Append(@, token),
              !.missing_channels =
                  IF res.missing # <<>>
                  THEN Append(@, token \o <<" ", "-", ">", " ">> \o join(<<",", " ">>, res.missing))
                  ELSE @,
              !.i = @ + 1]

\* The token names no group: _resolve_channel_identifier(token) is called
ExtractToken ==
    /\ AtToken
    /\ lower(Token) \notin DOMAIN xt.channel_groups
    /\ rtoken' = Token
    /\ rpc' = "start"
    /\ reached' = reached \cup {"resolve"}
    /\ UNCHANGED <<xt, hpc, rresult, inviteVars, group_calls>>
    /\ ExtractFrame

\* The token names a group: its result is taken from resolved_groups, or
\* _resolve_group_channels starts on it
ExtractGroup ==
    /\ AtToken
    /\ lower(Token) \in DOMAIN xt.channel_groups
    /\ xt' = IF lower(Token) \in DOMAIN xt.resolved_groups
             THEN TakeGroup(xt, Token, xt.resolved_groups[lower(Token)])
             ELSE [xt EXCEPT !.group = Some(lower(Token)), !.j = 1,
                             !.resolved = <<>>, !.missing = <<>>]
    /\ group_calls' = IF lower(Token) \in DOMAIN xt.resolved_groups THEN group_calls
                       ELSE Append(group_calls, lower(Token))
    /\ UNCHANGED <<hpc, reached, rtoken, rresult, rpc, inviteVars>>
    /\ ExtractFrame

\* The members of the group under resolution
Members == xt.channel_groups[xt.group[1]]

\* _resolve_group_channels calls _resolve_channel_identifier(entry)
GroupMember ==
    /\ hpc = "extract" /\ rpc = "idle" /\ xt.group # Nothing
    /\ xt.j <= Len(Members)
    /\ rtoken' = Members[xt.j]
    /\ rpc' = "start"
    /\ reached' = reached \cup {"resolve"}
    /\ UNCHANGED <<xt, hpc, rresult, inviteVars, group_calls>>
    /\ ExtractFrame

\* _resolve_group_channels returns; the token that named the group is done
GroupReturn ==
    /\ hpc = "extract" /\ rpc = "idle" /\ xt.group # Nothing
    /\ xt.j > Len(Members)
    /\ LET res == [resolved |-> dedupe(xt.resolved), missing |-> dedupe(xt.missing)]
           key == xt.group[1]
           known == [k \in DOMAIN xt.resolved_groups \cup {key} |->
                        IF k = key THEN res ELSE xt.resolved_groups[k]]
       IN  xt' = TakeGroup([xt EXCEPT !.resolved_groups = known, !.group = Nothing,
                                      !.j = 0, !.resolved = <<>>, !.missing = <<>>],
                           Token, res)
    /\ UNCHANGED <<hpc, reached, rtoken, rresult, rpc, inviteVars, group_calls>>
    /\ ExtractFrame

\* _resolve_channel_identifier has returned: `if channel_id:` in the caller
ExtractDeliver ==
    /\ hpc = "extract" /\ rpc = "done"
    /\ LET found == rresult # NoneS /\ rresult # <<>>
       IN  xt' = IF xt.group # Nothing
                 THEN [xt EXCEPT !.resolved = IF found THEN Append(@, rresult) ELSE @,
                                 !.missing = IF found THEN @ ELSE Append(@, rtoken),
                                 !.j = @ + 1]
                 ELSE [xt EXCEPT !.channel_ids = IF found THEN Append(@, rresult) ELSE @,
                                 !.unknown_tokens = IF found THEN @ ELSE Append(@, rtoken),
                                 !.i = @ + 1]
    /\ rpc' = "idle"
    /\ UNCHANGED <<hpc, reached, rtoken, rresult, inviteVars, group_calls>>
    /\ ExtractFrame

\* `if items: errors.append(prefix + ", ".join(sorted(items)))`
ErrorPart(prefix, items) ==
    IF items # <<>>
    THEN << <<Lit(prefix)>> \o Compress(join(<<",", " ">>, sorted(items))) >>
    ELSE <<>>

\* (mutant) a group with members that did not resolve is no error
AddErrors_MissingIgnored(x) ==
    ErrorPart("Unknown channel or channel group: ", dedupe(x.unknown_tokens))
    \o ErrorPart("Channel groups without any valid channels: ", dedupe(x.empty_groups))

\* `errors` of _parse_add_arguments, from what _extract_channel_ids returned
AddErrors(x) ==
    ErrorPart("Unknown channel or channel group: ", dedupe(x.unknown_tokens))
    \o ErrorPart("Channel groups without any valid channels: ", dedupe(x.empty_groups))
    \o ErrorPart("Could not resolve channels within groups: ", dedupe(x.missing_channels))

\* The loop of _extract_channel_ids is over: _parse_add_arguments raises, or
\* returns and _invite_bot_to_channels is called
ParseAddReturn ==
    /\ hpc = "extract" /\ rpc = "idle" /\ xt.group = Nothing
    /\ xt.i > Len(xt.tokens)
    /\ LET ids == dedupe(xt.channel_ids)
           errors == AddErrors(xt)
       IN  IF errors # <<>>
           THEN /\ said' = Append(said, WithUsage(join_newline(errors)))
                /\ hpc' = "done"
                /\ UNCHANGED <<inviteVars, reached>>
           ELSE IF ids = <<>>
           THEN /\ said' = Append(said, WithUsage(<<Lit("Please name channel group(s) and/or channel names.")>>))
                /\ hpc' = "done"
                /\ UNCHANGED <<inviteVars, reached>>
           ELSE /\ channel_ids' = ids
                /\ ipc' = "call"
                /\ hpc' = "invite"
                /\ reached' = reached \cup {"invite"}
                /\ UNCHANGED <<said, ch_idx, join_error, attempt, results, joined>>
    /\ UNCHANGED <<ALLOWED_USERS, USER_INFO_CACHE, CHANNEL_INFO_CACHE, event,
                   lookup_attempt, last_resp, slept, rejected_at, xt>>
    /\ UNCHANGED <<lines, line_idx, batch, char_count, bpc>>
    /\ UNCHANGED <<pairVars, resolverVars, driverVars, histVars, callVars, threadVars>>

\* _invite_bot_to_channels has returned: _send_batched_messages(say, feedback)
InviteReturn ==
    /\ hpc = "invite" /\ ipc = "done"
    /\ lines' = results
    /\ bpc' = "call"
    /\ hpc' = "reply"
    /\ UNCHANGED <<line_idx, batch, char_count, said>>
    /\ UNCHANGED <<inviteVars, pairVars, resolverVars, driverVars, histVars, callVars, threadVars, gateRest, xt>>

\* _send_batched_messages has returned, and so does the handler
ReplyReturn ==
    /\ hpc = "reply" /\ bpc = "done"
    /\ hpc' = "done"
    /\ UNCHANGED <<batcherVars, inviteVars, pairVars, resolverVars, driverVars, histVars, callVars, threadVars, gateRest, xt>>

-----------------------------------------------------------------------------
(* Inputs of the batcher specification.  A line has no line break inside   *)
(* it; it may carry white space, line breaks included, at its ends.        *)

MaxPre == 1     \* lines before the filler block
MaxSuf == 1     \* lines after the filler block
MaxFill == 3    \* the filler block has 0 or MaxBatchLines-2 .. MaxBatchLines-2+MaxFill lines

Filler == <<Run("x", 1)>>
LineKinds ==
    { <<Run(" ", 3)>>,                                   \* blank
      <<Run(" ", 2), Run("a", 5), NL>>,                  \* padded
      <<Run("b", 3), Run(" ", 1), Run("c", 3)>>,         \* white space inside
      <<Run("d", 1700)>>,                                \* two fit a batch, three do not
      <<Run("e", MaxBatchChars - 1)>>,                   \* fills a batch exactly
      <<Run("f", MaxBatchChars)>>,                       \* as long as the budget
      <<Run("g", MaxBatchChars + 1)>> }                  \* longer than the budget

FillCounts == {0} \cup ((MaxBatchLines - 2)..(MaxBatchLines - 2 + MaxFill))
BatcherInputs ==
    { pre \o [i \in 1..k |-> Filler] \o suf :
        pre \in SeqsUpTo(LineKinds, MaxPre), k \in FillCounts,
        suf \in SeqsUpTo(LineKinds, MaxSuf) }

BatcherIdle ==
    /\ lines = <<>>
    /\ line_idx = 0
    /\ batch = <<>>
    /\ char_count = 0
    /\ said = <<>>
    /\ bpc = "idle"

IdleOrc ==
    [channel_ids |-> <<>>, ch_idx |-> 0, join_error |-> None, attempt |-> 0,
     results |-> <<>>, pc |-> "idle", joined |-> {}]

InviteIdle ==
    /\ channel_ids = <<>>
    /\ ch_idx = 0
    /\ join_error = None
    /\ attempt = 0
    /\ results = <<>>
    /\ ipc = "idle"
    /\ joined = {}

PairIdle ==
    /\ twin = IdleOrc
    /\ diff_idx = 0

EmptyCache == [k \in {} |-> NoneS]

ResolverIdle ==
    /\ CHANNEL_CACHE = EmptyCache
    /\ directory = <<>>
    /\ rtoken = <<>>
    /\ channel_name = <<>>
    /\ cursor = 0
    /\ rresult = NoneS
    /\ fetches = 0
    /\ rpc = "idle"
    /\ resolutions = <<>>

HistIdle ==
    /\ group_calls = <<>>
    /\ last_call = NoCall

CallIdle ==
    /\ call_arg = <<>>
    /\ call_ret = <<>>

ThreadsIdle == threads = <<>>

HandlerIdle ==
    /\ HistIdle
    /\ ALLOWED_USERS = Nothing
    /\ USER_INFO_CACHE = EmptyMap
    /\ CHANNEL_INFO_CACHE = EmptyMap
    /\ event = NoEvent
    /\ hpc = "idle"
    /\ lookup_attempt = 0
    /\ last_resp = NoResponse
    /\ slept = 0
    /\ reached = {}
    /\ rejected_at = "none"
    /\ xt = XtIdle

InitBatcher ==
    /\ CallIdle
    /\ ThreadsIdle
    /\ lines \in BatcherInputs
    /\ line_idx = 0
    /\ batch = <<>>
    /\ char_count = 0
    /\ said = <<>>
    /\ bpc = "call"
    /\ InviteIdle
    /\ PairIdle
    /\ ResolverIdle
    /\ HandlerIdle

NextBatcher ==
    \/ BatcherEnter
    \/ BatcherIter
    \/ BatcherTail

SpecBatcher == InitBatcher /\ [][NextBatcher]_vars

-----------------------------------------------------------------------------
(* Specification of the orchestrator: two calls on one list of distinct    *)
(* channel identifiers.                                                    *)

MaxChannels == 3    \* channel identifiers known, and the longest channel_ids

\* "C11111111", "C22222222", ...
Chan(i) == <<"C">> \o Rep(ToString(i), 8)
Channels == { Chan(i) : i \in 1..MaxChannels }

\* The lists of distinct identifiers, up to the renaming of the channels
ChannelLists == { [i \in 1..n |-> Chan(i)] : n \in 0..MaxChannels }

InitInvite ==
    /\ CallIdle
    /\ ThreadsIdle
    /\ BatcherIdle
    /\ ResolverIdle
    /\ HandlerIdle
    /\ channel_ids \in ChannelLists
    /\ ch_idx = 0
    /\ join_error = None
    /\ attempt = 0
    /\ results = <<>>
    /\ ipc = "call"
    /\ joined = {}
    /\ twin = [IdleOrc EXCEPT !.channel_ids = channel_ids, !.pc = "call"]
    /\ diff_idx \in 0..Len(channel_ids)

NextInvite ==
    \/ PairEnter
    \/ \E r \in JoinResponses \cup InviteResponses : PairSame(r)
    \/ \E r \in JoinResponses \cup InviteResponses : PairFirst(r)
    \/ \E r \in JoinResponses \cup InviteResponses : PairSecond(r)

SpecInvite == InitInvite /\ [][NextInvite]_vars

-----------------------------------------------------------------------------
(* Specification of the resolver: one token resolved twice in a row against *)
(* a listing of up to MaxPages pages.                                      *)

MaxPages == 2

Str_sales == <<"s", "a", "l", "e", "s">>
Str_support == <<"s", "u", "p", "p", "o", "r", "t">>
Str_nosuch == <<"n", "o", "s", "u", "c", "h">>

\* The channels the listing may hold
Listed(k) ==
    IF k = 1 THEN [name |-> Str_sales, id |-> Chan(1)]
    ELSE IF k = 2 THEN [name |-> Str_support, id |-> Chan(2)]
    ELSE [name |-> <<"x">> \o Rep("y", k), id |-> Chan(k)]

\* The listings: page k holds channel k, or every channel is on page 1
Directories ==
    { [k \in 1..n |-> <<Listed(k)>>] : n \in 0..MaxPages }
    \cup { <<[k \in 1..n |-> Listed(k)]>> : n \in 1..MaxPages }

\* A mention that spells the identifier in lower case
Tok_mention_lower == <<"<", "#", "c">> \o Rep("1", 8) \o <<">">>

ResolverTokens ==
    { <<"#">> \o Str_sales,
      <<"#", "S", "a", "l", "e", "s">>,
      Str_support,
      <<"#">> \o Str_support,
      <<"#">> \o Str_nosuch,
      <<"#">>,
      <<"<", "#">> \o Chan(1) \o <<"|">> \o Str_sales \o <<">">>,
      Tok_mention_lower,
      <<"c">> \o Rep("2", 8),
      <<"C", "1", "2", "3">> }

InitResolve ==
    /\ CallIdle
    /\ ThreadsIdle
    /\ BatcherIdle
    /\ InviteIdle
    /\ PairIdle
    /\ HandlerIdle
    /\ CHANNEL_CACHE = EmptyCache
    /\ directory \in Directories
    /\ rtoken \in ResolverTokens
    /\ channel_name = <<>>
    /\ cursor = 0
    /\ rresult = NoneS
    /\ fetches = 0
    /\ rpc = "idle"
    /\ resolutions = <<>>

NextResolve ==
    \/ ResolveCall
    \/ ResolveStart
    \/ \E r \in ListResponses(directory, cursor) : ListPage(r)
    \/ ResolveReturn

SpecResolve == InitResolve /\ [][NextResolve]_vars

-----------------------------------------------------------------------------
(* Specification of the handler: events arrive one after the other, each   *)
(* handled to its end before the next; the caches live on between them.    *)

MaxAddTokens == 2   \* channel and group tokens of an `add` command

\* The user who sends the events, and another one
U1 == <<"U", "1">>
U2 == <<"U", "2">>
CommandChannel == Chan(9)
DirectMessage == <<"D", "1">>

\* The values ALLOWED_USERS may have after start-up
AllowLists == { Nothing, Some({U1}), Some({U2}) }

\* The listing of the workspace: channel k on page k
Workspace == << <<Listed(1)>>, <<Listed(2)>> >>

Tok_help == <<"h", "e", "l", "p">>
Tok_list == <<"l", "i", "s", "t">>
Tok_Add == <<"A", "d", "d">>
Tok_add == <<"a", "d", "d">>
Tok_frob == <<"F", "r", "o", "b">>
Tok_bot == <<"<", "@", "U", "9", "|", "b", ">">>
Tok_nobot == <<"b", "o", "t">>
Tok_Customers == <<"C", "u", "s", "t">>
Tok_partial == <<"p", "a", "r", "t">>
Tok_ghosts == <<"g", "h", "o", "s", "t", "s">>
Tok_sales == <<"#">> \o Str_sales
Tok_support == <<"#">> \o Str_support
Tok_nosuch == <<"#">> \o Str_nosuch

\* The contents CHANNEL_GROUPS_PATH may have when it is read
GoodFile ==
    Object(<< Entry(<<"c", "u", "s", "t">>, ListValue(<<Tok_sales, Tok_support>>)),
              Entry(Tok_partial, DictValue(Some(<<Tok_sales, <<>>, Tok_nosuch>>),
                                           Some(<<" ", "m", "i", "x", " ">>))),
              Entry(Tok_ghosts, DictValue(Some(<<Tok_nosuch>>), Nothing)) >>)
HollowFile ==
    Object(<< Entry(<<"c", "u", "s", "t">>, ListValue(<<Tok_sales>>)),
              Entry(<<"h", "o", "l", "e">>, ListValue(<< <<>> >>)),
              Entry(<<"o", "d", "d">>, OtherValue) >>)
GroupFiles == { NoFile, BadJson, GoodFile, HollowFile }

AddTokens == { Tok_Customers, Tok_partial, Tok_nosuch }

\* The attached files of an event
TokenFile ==
    File(<<"f">>, <<"t", "e", "x", "t", "/", "x">>, Some(<<"u">>), "ok",
         Tok_sales \o <<",">> \o Tok_ghosts)
BrokenFile == File(<<"g">>, <<>>, Some(<<"u">>), "HTTPError", <<>>)

\* The text of a mention followed by the given words
Mention(words) ==
    IF words = <<>> THEN BOT_MENTION \o <<" ">>
    ELSE BOT_MENTION \o <<" ">> \o join(<<" ">>, words)

\* Events that differ in who sends them and where
GateEvents ==
    { Ev(Mention(<<Tok_help>>), u, c, <<>>) :
        u \in {<<>>, U1}, c \in {<<>>, CommandChannel, DirectMessage} }

\* Events that differ in what they ask for
CommandWords ==
    { <<>>, <<Tok_list>>, <<Tok_list, Tok_help>>, <<Tok_frob>>, <<Tok_Add>>,
      <<Tok_add, Tok_nobot, Tok_sales>>, <<Tok_add, Tok_bot>>,
      <<Tok_add, Tok_bot, Tok_ghosts>> }
    \cup { <<Tok_add, Tok_bot>> \o ts : ts \in SeqsUpTo(AddTokens, MaxAddTokens) }
CommandEvents ==
    { Ev(Mention(ws), U1, CommandChannel, <<>>) : ws \in CommandWords }
    \cup { Ev(Mention(<<Tok_add, Tok_bot>>), U1, CommandChannel, <<TokenFile>>),
           Ev(Mention(<<Tok_add, Tok_bot, Tok_sales>>), U1, CommandChannel, <<BrokenFile>>),
           Ev(Mention(<<Tok_help>>), U1, CommandChannel, <<BrokenFile, TokenFile>>) }
Events == GateEvents \cup CommandEvents

Init ==
    /\ BatcherIdle
    /\ InviteIdle
    /\ PairIdle
    /\ CHANNEL_CACHE = EmptyCache
    /\ directory = Workspace
    /\ rtoken = <<>>
    /\ channel_name = <<>>
    /\ cursor = 0
    /\ rresult = NoneS
    /\ fetches = 0
    /\ rpc = "idle"
    /\ resolutions = <<>>
    /\ ALLOWED_USERS \in AllowLists
    /\ USER_INFO_CACHE = EmptyMap
    /\ CHANNEL_INFO_CACHE = EmptyMap
    /\ event = NoEvent
    /\ hpc = "idle"
    /\ lookup_attempt = 0
    /\ last_resp = NoResponse
    /\ slept = 0
    /\ reached = {}
    /\ rejected_at = "none"
    /\ xt = XtIdle
    /\ HistIdle
    /\ CallIdle
    /\ ThreadsIdle

Next ==
    \/ \E e \in Events : Receive(e)
    \/ \E r \in LookupResponses : UsersInfo(r)
    \/ \E r \in LookupResponses : ConversationsInfo(r)
    \/ \E f \in GroupFiles : Dispatch(f)
    \/ ExtractToken
    \/ ExtractGroup
    \/ GroupMember
    \/ GroupReturn
    \/ ExtractDeliver
    \/ ParseAddReturn
    \/ ResolveStart
    \/ \E r \in ListResponses(directory, cursor) : ListPage(r)
    \/ InviteEnter
    \/ \E r \in JoinResponses \cup InviteResponses : InviteCall(r)
    \/ InviteReturn
    \/ BatcherEnter
    \/ BatcherIter
    \/ BatcherTail
    \/ ReplyReturn
    \/ HandlerReturn

Spec == Init /\ [][Next]_vars

-----------------------------------------------------------------------------
(* Specification of the handler for termination: a few events, one of each *)
(* kind of work, and the fairness of a sequential run: a step that can be  *)
(* taken is taken, and every remote call returns.                          *)

LiveEvents ==
    { Ev(Mention(<<Tok_help>>), <<>>, CommandChannel, <<>>),
      Ev(Mention(<<Tok_list>>), U1, CommandChannel, <<>>),
      Ev(Mention(<<Tok_add, Tok_bot, Tok_Customers>>), U1, CommandChannel, <<>>),
      Ev(Mention(<<Tok_add, Tok_bot, Tok_nosuch>>), U1, CommandChannel, <<>>) }

NextLive ==
    \/ \E e \in LiveEvents : Receive(e)
    \/ \E r \in LookupResponses : UsersInfo(r)
    \/ \E r \in LookupResponses : ConversationsInfo(r)
    \/ Dispatch(GoodFile)
    \/ ExtractToken
    \/ ExtractGroup
    \/ GroupMember
    \/ GroupReturn
    \/ ExtractDeliver
    \/ ParseAddReturn
    \/ ResolveStart
    \/ \E r \in ListResponses(directory, cursor) : ListPage(r)
    \/ InviteEnter
    \/ \E r \in JoinResponses \cup InviteResponses : InviteCall(r)
    \/ InviteReturn
    \/ BatcherEnter
    \/ BatcherIter
    \/ BatcherTail
    \/ ReplyReturn
    \/ HandlerReturn

\* The steps of the handling of an event, and the places the handler is at
\* when one of the last five can be taken
LightSteps ==
    \/ \E r \in LookupResponses : UsersInfo(r)
    \/ \E r \in LookupResponses : ConversationsInfo(r)
    \/ ExtractToken
    \/ ExtractGroup
    \/ GroupMember
    \/ GroupReturn
    \/ ExtractDeliver
    \/ \E r \in ListResponses(directory, cursor) : ListPage(r)
    \/ InviteReturn
    \/ BatcherEnter
    \/ BatcherIter
    \/ BatcherTail
    \/ ReplyReturn
HeavySteps ==
    \/ Dispatch(GoodFile)
    \/ ParseAddReturn
    \/ ResolveStart
    \/ InviteEnter
    \/ \E r \in JoinResponses \cup InviteResponses : InviteCall(r)
AtHeavyStep ==
    \/ hpc = "command"
    \/ hpc = "extract" /\ rpc = "idle" /\ xt.group = Nothing /\ xt.i > Len(xt.tokens)
    \/ rpc = "start"
    \/ ipc \in {"call", "join", "invite"}

\* Weak fairness of the steps of the handling; for HeavySteps it is written
\* out, with AtHeavyStep for ENABLED <<HeavySteps>>_vars
HandlerFairness ==
    /\ WF_vars(LightSteps)
    /\ ([]<>~AtHeavyStep) \/ ([]<><<HeavySteps>>_vars)

SpecLive == Init /\ [][NextLive]_vars /\ HandlerFairness

-----------------------------------------------------------------------------
(* Specification of one call of _invite_bot_to_channels *)

InitOrchestrator ==
    /\ CallIdle
    /\ ThreadsIdle
    /\ BatcherIdle
    /\ ResolverIdle
    /\ HandlerIdle
    /\ PairIdle
    /\ channel_ids \in ChannelLists
    /\ ch_idx = 0
    /\ join_error = None
    /\ attempt = 0
    /\ results = <<>>
    /\ ipc = "call"
    /\ joined = {}

NextOrchestrator ==
    \/ InviteEnter
    \/ \E r \in JoinResponses \cup InviteResponses : InviteCall(r)

SpecOrchestrator == InitOrchestrator /\ [][NextOrchestrator]_vars

-----------------------------------------------------------------------------
(* Specification of _load_channel_groups: one call on a file whose entries *)
(* are well-formed, empty or malformed                                     *)

MaxEntries == 2     \* entries of the group file

EntryValues ==
    { ListValue(<<Tok_sales>>),
      ListValue(<<Tok_sales, <<>>, Tok_support>>),
      ListValue(<<>>),
      ListValue(<< <<>> >>),
      DictValue(Some(<<Tok_support>>), Some(<<" ", "m", "i", "x", " ">>)),
      DictValue(Nothing, Some(<<"m", "i", "x">>)),
      OtherValue }

EntryName(i) == <<"G", ToString(i)>>

LoadInputs ==
    { NoFile, BadJson, NotObject }
    \cup { Object([i \in 1..Len(vs) |-> Entry(EntryName(i), vs[i])]) :
             vs \in SeqsUpTo(EntryValues, MaxEntries) }

CallFrame ==
    UNCHANGED <<batcherVars, inviteVars, pairVars, resolverVars, driverVars, handlerVars,
                histVars, call_arg, threadVars>>

InitLoad ==
    /\ BatcherIdle
    /\ InviteIdle
    /\ PairIdle
    /\ ResolverIdle
    /\ HandlerIdle
    /\ call_arg \in LoadInputs
    /\ ThreadsIdle
    /\ call_ret = <<>>

\* _load_channel_groups() with call_arg at CHANNEL_GROUPS_PATH
LoadCall ==
    /\ call_ret = <<>>
    /\ call_ret' = <<_load_channel_groups(call_arg)>>
    /\ CallFrame

SpecLoad == InitLoad /\ [][LoadCall]_vars

-----------------------------------------------------------------------------
(* Specification of _parse_command_text: one call on a text made of words, *)
(* the mention of the bot among them at any place                          *)

MaxWords == 3       \* words of the text

Words == { BOT_MENTION, Tok_Add, Tok_bot, Tok_sales }

ParseInputs ==
    { pad \o join(<<" ">>, ws) :
        pad \in { <<>>, <<" ">> }, ws \in SeqsUpTo(Words, MaxWords) }

InitParse ==
    /\ BatcherIdle
    /\ InviteIdle
    /\ PairIdle
    /\ ResolverIdle
    /\ HandlerIdle
    /\ call_arg \in ParseInputs
    /\ ThreadsIdle
    /\ call_ret = <<>>

\* _parse_command_text(call_arg)
ParseCall ==
    /\ call_ret = <<>>
    /\ call_ret' = <<_parse_command_text(call_arg)>>
    /\ CallFrame

SpecParse == InitParse /\ [][ParseCall]_vars

-----------------------------------------------------------------------------
(* Specification of the resolver for tokens that begin with c or g: the    *)
(* workspace has channels of such names, listed and, in some runs, cached. *)

Str_general == <<"g", "e", "n", "e", "r", "a", "l">>
Str_customers == <<"c", "u", "s", "t", "o", "m", "e", "r", "s">>

NamedListing ==
    << <<[name |-> Str_general, id |-> Chan(1)]>>,
       <<[name |-> Str_customers, id |-> Chan(2)], Listed(1)>> >>
NamedCache == CachePage(CachePage(EmptyCache, NamedListing[1]), NamedListing[2])

RawIdTokens ==
    { Str_general,
      <<"G", "e", "n", "e", "r", "a", "l">>,
      <<" ">> \o Str_general \o <<" ">>,
      Str_customers,
      <<"C", "u", "s", "t", "o", "m", "e", "r", "s">>,
      <<"c">> \o Rep("2", 8),
      <<"G", "1", "2">>,
      <<"#">> \o Str_general,
      <<"#">> \o Str_customers,
      Str_sales,
      <<"<", "#">> \o Chan(1) \o <<"|">> \o Str_general \o <<">">> }

InitRawId ==
    /\ CallIdle
    /\ ThreadsIdle
    /\ BatcherIdle
    /\ InviteIdle
    /\ PairIdle
    /\ HandlerIdle
    /\ CHANNEL_CACHE \in {EmptyCache, NamedCache}
    /\ directory \in {NamedListing, <<>>}
    /\ rtoken \in RawIdTokens
    /\ channel_name = <<>>
    /\ cursor = 0
    /\ rresult = NoneS
    /\ fetches = 0
    /\ rpc = "idle"
    /\ resolutions = <<>>

SpecRawId == InitRawId /\ [][NextResolve]_vars

-----------------------------------------------------------------------------
(* Two handler threads at the shared caches.  Each is in _is_guest_user,   *)
(* _is_external_channel or _channel_name_to_id; a step of a thread runs    *)
(* from the return of a remote call (or from the entry of the function) to *)
(* its next remote call or to its return.  The workspace may change while  *)
(* they run: the channel sales is re-created under another identifier.     *)

Threads == {1, 2}

Renamed == << <<[name |-> Str_sales, id |-> Chan(3)]>>, <<Listed(2)>> >>
Workspaces == { Workspace, Renamed }

\* The lookups a thread may be in: the function and its argument
ThreadCalls ==
    { [op |-> "guest", key |-> U1],
      [op |-> "external", key |-> CommandChannel],
      [op |-> "name", key |-> Str_sales],
      [op |-> "name", key |-> Str_support] }

ThreadFlagResponses ==
    { OkWith(<<FALSE, FALSE, FALSE>>), OkWith(<<TRUE, FALSE, FALSE>>),
      Err(429, "ratelimited"), Err(200, "missing_scope") }
ThreadListResponses(c) ==
    { OkWith(Page(d, c)) : d \in Workspaces } \cup { Err(200, "fatal_error") }
\* The cache the function of the thread reads and writes
CacheOf(op) ==
    IF op = "guest" THEN USER_INFO_CACHE
    ELSE IF op = "external" THEN CHANNEL_INFO_CACHE
    ELSE CHANNEL_CACHE

\* The locals of a thread before the function is entered.  `found` is the
\* cache as the thread found it on entry, `answers` what the remote service
\* answered to its calls, in order.
ThreadAt(call) ==
    [op |-> call.op, key |-> call.key, pc |-> "entry", cursor |-> 0, attempt |-> 0,
     result |-> NoneS, found |-> EmptyMap, answers |-> <<>>]

\* The function up to its first remote call: the cached value, or the call
ThreadEntered(th, cache) ==
    IF th.op = "external" /\ startswith(th.key, <<"D">>)
    THEN [th EXCEPT !.pc = "done", !.result = TRUE, !.found = cache]
    ELSE IF th.key \in DOMAIN cache
    THEN [th EXCEPT !.pc = "done", !.found = cache,
                    !.result = IF th.op = "name" THEN cache[th.key]
                               ELSE AnyFlag(cache[th.key])]
    ELSE [th EXCEPT !.pc = "call", !.found = cache]

\* The thread and the cache after the remote call of the thread was
\* answered by r
ThreadAnswered(th, cache, r) ==
    LET th1 == [th EXCEPT !.attempt = @ + 1, !.answers = Append(@, r)]
    IN  IF th.op = "name"
        THEN IF ~r.ok
             THEN [thread |-> [th1 EXCEPT !.pc = "done", !.result = NoneS], cache |-> cache]
             ELSE IF r.data.next_cursor # 0
             THEN [thread |-> [th1 EXCEPT !.cursor = r.data.next_cursor],
                   cache |-> CachePage(cache, r.data.channels)]
             ELSE [thread |-> [th1 EXCEPT !.pc = "done",
                                          !.result = ListDone(CachePage(cache, r.data.channels),
                                                              th.key).value],
                   cache |-> CachePage(cache, r.data.channels)]
        ELSE IF r.ok
             THEN [thread |-> [th1 EXCEPT !.pc = "done", !.result = AnyFlag(r.data)],
                   cache |-> CacheAfter(cache, th.key, r)]
             ELSE IF _handle_rate_limit(r, th1.attempt)
             THEN [thread |-> th1, cache |-> cache]
             ELSE [thread |-> [th1 EXCEPT !.pc = "done",
                                          !.result = IF th.op = "guest"
                                                     THEN GuestErrorVerdict(r).is_guest
                                                     ELSE ChannelErrorVerdict(r).is_external],
                   cache |-> cache]

SetCacheOf(op, cache) ==
    /\ USER_INFO_CACHE' = IF op = "guest" THEN cache ELSE USER_INFO_CACHE
    /\ CHANNEL_INFO_CACHE' = IF op = "external" THEN cache ELSE CHANNEL_INFO_CACHE
    /\ CHANNEL_CACHE' = IF op = "name" THEN cache ELSE CHANNEL_CACHE

ThreadFrame ==
    /\ UNCHANGED <<directory, rtoken, channel_name, cursor, rresult, fetches, rpc>>
    /\ UNCHANGED <<ALLOWED_USERS, event, lookup_attempt, last_resp, slept, reached,
                   rejected_at, hpc, xt>>
    /\ UNCHANGED <<batcherVars, inviteVars, pairVars, driverVars, histVars, callVars>>

\* Thread t enters its function
ThreadEnter(t) ==
    /\ threads[t].pc = "entry"
    /\ threads' = [threads EXCEPT ![t] = ThreadEntered(threads[t], CacheOf(threads[t].op))]
    /\ UNCHANGED <<USER_INFO_CACHE, CHANNEL_INFO_CACHE, CHANNEL_CACHE>>
    /\ ThreadFrame

\* users_info / conversations_info of thread t answered by r
ThreadFlagAnswer(t, r) ==
    /\ threads[t].pc = "call"
    /\ threads[t].op # "name"
    /\ r \in ThreadFlagResponses
    /\ threads' = [threads EXCEPT
                      ![t] = ThreadAnswered(threads[t], CacheOf(threads[t].op), r).thread]
    /\ SetCacheOf(threads[t].op, ThreadAnswered(threads[t], CacheOf(threads[t].op), r).cache)
    /\ ThreadFrame

\* conversations_list of thread t answered by r
ThreadListAnswer(t, r) ==
    /\ threads[t].pc = "call"
    /\ threads[t].op = "name"
    /\ r \in ThreadListResponses(threads[t].cursor)
    /\ threads' = [threads EXCEPT
                      ![t] = ThreadAnswered(threads[t], CacheOf(threads[t].op), r).thread]
    /\ SetCacheOf(threads[t].op, ThreadAnswered(threads[t], CacheOf(threads[t].op), r).cache)
    /\ ThreadFrame

InitThreads ==
    /\ BatcherIdle
    /\ InviteIdle
    /\ PairIdle
    /\ ResolverIdle
    /\ HandlerIdle
    /\ call_arg = <<>>
    /\ call_ret = <<>>
    /\ threads \in { <<ThreadAt(c1), ThreadAt(c2)>> : c1 \in ThreadCalls, c2 \in ThreadCalls }

NextThreads ==
    \/ \E t \in Threads : ThreadEnter(t)
    \/ \E t \in Threads : \E r \in ThreadFlagResponses : ThreadFlagAnswer(t, r)
    \/ \E t \in Threads : \E r \in ThreadListResponses(threads[t].cursor) :
          ThreadListAnswer(t, r)

SpecThreads == InitThreads /\ [][NextThreads]_vars

-----------------------------------------------------------------------------
(* Specification of _extract_channel_ids: an `add` command that passed the *)
(* gate, from the call of _extract_channel_ids to the return of            *)
(* _parse_add_arguments, over token lists that repeat groups in either     *)
(* case and name one channel by mention, by identifier and by name.        *)

MaxExtractTokens == 2   \* channel and group tokens of the `add` command

Tok_cust == <<"c", "u", "s", "t">>
Tok_Ghosts == <<"G", "h", "o", "s", "t", "s">>
Tok_mention_sales == <<"<", "#">> \o Chan(1) \o <<"|">> \o Str_sales \o <<">">>
Tok_id_support == lower(Chan(2))
Tok_general == <<"g", "e", "n", "e", "r", "a", "l">>

ExtractTokens ==
    { Tok_Customers, Tok_cust, Tok_ghosts, Tok_Ghosts,
      Tok_mention_sales, Tok_id_support, Tok_sales, Tok_general }

ExtractEvents ==
    { Ev(Mention(<<Tok_add, Tok_bot>> \o ts), U1, CommandChannel, <<>>) :
        ts \in SeqsUpTo(ExtractTokens, MaxExtractTokens) \ {<<>>} }

NoFlags == <<FALSE, FALSE, FALSE>>

InitExtract ==
    /\ BatcherIdle
    /\ InviteIdle
    /\ PairIdle
    /\ HistIdle
    /\ CallIdle
    /\ ThreadsIdle
    /\ CHANNEL_CACHE = EmptyCache
    /\ directory = Workspace
    /\ rtoken = <<>>
    /\ channel_name = <<>>
    /\ cursor = 0
    /\ rresult = NoneS
    /\ fetches = 0
    /\ rpc = "idle"
    /\ resolutions = <<>>
    /\ ALLOWED_USERS = Nothing
    /\ USER_INFO_CACHE = [u \in {U1} |-> NoFlags]
    /\ CHANNEL_INFO_CACHE = [c \in {CommandChannel} |-> NoFlags]
    /\ event \in ExtractEvents
    /\ hpc = "extract"
    /\ lookup_attempt = 0
    /\ last_resp = Brief(OkWith(NoFlags))
    /\ slept = 0
    /\ reached = {"users_info", "conversations_info"} \cup Command(event, GoodFile).reached
    /\ rejected_at = "none"
    /\ xt = Command(event, GoodFile).xt

NextExtract ==
    \/ ExtractToken
    \/ ExtractGroup
    \/ GroupMember
    \/ GroupReturn
    \/ ExtractDeliver
    \/ ParseAddReturn
    \/ ResolveStart
    \/ \E r \in ListResponses(directory, cursor) : ListPage(r)

SpecExtract == InitExtract /\ [][NextExtract]_vars

-----------------------------------------------------------------------------
(* Properties of the authorization gate *)

AllowListPassed == ALLOWED_USERS = Nothing \/ upper(event.user) \in ALLOWED_USERS[1]
GuestPassed ==
    /\ event.user \in DOMAIN USER_INFO_CACHE
    /\ \A i \in 1..3 : ~USER_INFO_CACHE[event.user][i]
ChannelPassed ==
    /\ event.channel[1] # "D"
    /\ event.channel \in DOMAIN CHANNEL_INFO_CACHE
    /\ \A i \in 1..3 : ~CHANNEL_INFO_CACHE[event.channel][i]

\* Nothing of the handling of a command has happened for the event
NoCommandWork ==
    /\ reached \cap {"parse", "files", "load_groups", "resolve", "invite"} = {}
    /\ rpc = "idle" /\ fetches = 0
    /\ ipc = "idle" /\ joined = {} /\ results = <<>>
    /\ bpc = "idle"
    /\ xt = XtIdle

\* C3: the gate checks the allow-list, then the guest status, then the
\* channel, and ends at the first rejection: a request rejected at a step has
\* made no lookup of a later step and none of the command's work; a step is
\* reached only by requests that passed the steps before it; the allow-list
\* is skipped only when none is configured.
C3_GateTerminal ==
    /\ rejected_at # "none" => hpc = "done" /\ NoCommandWork /\ Len(said) = 1
    /\ rejected_at = "allow_list" => reached = {}
    /\ rejected_at = "guest" => "conversations_info" \notin reached
    /\ (hpc = "users_info" \/ "users_info" \in reached \/ rejected_at \in {"guest", "external"})
          => AllowListPassed
    /\ (hpc = "conversations_info" \/ "conversations_info" \in reached \/ rejected_at = "external")
          => AllowListPassed /\ GuestPassed
    /\ (hpc \in {"command", "extract", "invite", "reply"} \/ ~NoCommandWork)
          => rejected_at = "none" /\ AllowListPassed /\ GuestPassed /\ ChannelPassed
    /\ (event.user # <<>> /\ event.channel # <<>> /\ ~AllowListPassed) => rejected_at = "allow_list"
    /\ ALLOWED_USERS = Nothing => rejected_at # "allow_list"

\* A request that passed a configured allow-list is turned down as a guest
\* after its user was looked up
C3_Witness ==
    /\ ALLOWED_USERS # Nothing
    /\ rejected_at = "guest"
    /\ "users_info" \in reached
    /\ last_resp.ok

GenericUserFailure == <<Lit("Couldn't verify your account status.")>>
GenericChannelFailure == <<Lit("Couldn't verify this channel.")>>

\* A retry of the lookup under way is pending
RetryPending == hpc \in {"users_info", "conversations_info"} /\ lookup_attempt > 0

\* C4: a lookup of the gate that ends in an error other than a missing
\* permission (a rate limit past the retry bound included) ends the request:
\* it is answered with the generic verification failure of that lookup and
\* with nothing else, and none of the command's work is done.
C4_FailClosed ==
    (~last_resp.ok /\ last_resp.error # "missing_scope" /\ ~RetryPending)
        => /\ hpc = "done"
           /\ rejected_at \in {"guest", "external"}
           /\ rejected_at = "guest" => said = <<GenericUserFailure>>
           /\ rejected_at = "external" => said = <<GenericChannelFailure>>
           /\ NoCommandWork

\* The channel lookup was rate limited past the retry bound
C4_Witness ==
    /\ hpc = "done"
    /\ rejected_at = "external"
    /\ last_resp.status = 429
    /\ lookup_attempt = 6
    /\ said = <<GenericChannelFailure>>

\* C5 (on the lookups of the gate, which run under the retry logic): the
\* operation is called again exactly when its latest attempt failed with a
\* rate-limit signal (status 429 or code ratelimited) and no more than 5
\* attempts were made, each retry after one sleep; it is retried at most 5
\* times, and the rate-limit failure of the attempt after that ends the
\* lookup; any other error ends it at once, with no sleep after it.
C5_RetryDiscipline ==
    LET rate_limited == last_resp.status = 429 \/ last_resp.error = "ratelimited"
    IN  /\ lookup_attempt <= 5 + 1
        /\ RetryPending => /\ ~last_resp.ok /\ rate_limited
                           /\ lookup_attempt <= 5
                           /\ slept = lookup_attempt
        /\ (~last_resp.ok /\ ~RetryPending)
              => /\ hpc = "done"
                 /\ lookup_attempt >= 1
                 /\ slept = lookup_attempt - 1
                 /\ rate_limited => lookup_attempt = 5 + 1

\* The user lookup was retried five times and its sixth rate-limit failure
\* ended it
C5_Witness ==
    /\ hpc = "done"
    /\ rejected_at = "guest"
    /\ lookup_attempt = 6
    /\ slept = 5
    /\ last_resp.error = "ratelimited"

-----------------------------------------------------------------------------
(* Properties of the add command *)

\* Some token was unknown, some group gave no channel, or some member of a
\* group did not resolve
SomeUnresolved ==
    \/ xt.unknown_tokens # <<>>
    \/ xt.empty_groups # <<>>
    \/ xt.missing_channels # <<>>

ErrorPrefixes ==
    { Lit("Unknown channel or channel group: "),
      Lit("Channel groups without any valid channels: "),
      Lit("Could not resolve channels within groups: ") }

\* The message is the aggregated error of _parse_add_arguments with the
\* usage help after it
IsAggregatedError(msg) ==
    /\ msg[1] \in ErrorPrefixes
    /\ msg[Len(msg)] = Lit("USAGE_HELP")
    /\ xt.unknown_tokens # <<>> <=> Lit("Unknown channel or channel group: ") \in Range(msg)
    /\ xt.empty_groups # <<>> <=> Lit("Channel groups without any valid channels: ") \in Range(msg)
    /\ xt.missing_channels # <<>> <=> Lit("Could not resolve channels within groups: ") \in Range(msg)

IsFileWarning(msg) == msg[1] = Lit("[!] ")

\* C2: once a token of an add command is unresolved, a named group has given
\* no channel or a member of a named group has not resolved, no join and no
\* invite is ever made, whatever else resolved, and the command ends with
\* one reply, the aggregated error (after the warnings for attached files).
C2_AllOrNothing ==
    SomeUnresolved
        => /\ hpc \in {"extract", "done"}
           /\ ipc = "idle" /\ joined = {} /\ results = <<>> /\ attempt = 0
           /\ "invite" \notin reached
           /\ hpc = "done"
                 => /\ said # <<>>
                    /\ IsAggregatedError(said[Len(said)])
                    /\ \A i \in 1..(Len(said) - 1) : IsFileWarning(said[i])

\* A command fails although some of its channels resolved: a group with a
\* member that resolved and one that did not, next to an unknown token
C2_Witness ==
    /\ hpc = "done"
    /\ xt.channel_ids # <<>>
    /\ xt.missing_channels # <<>>
    /\ xt.unknown_tokens # <<>>
    /\ Len(said) = 1

-----------------------------------------------------------------------------
(* Properties of the reply batcher *)

RECURSIVE Flatten(_)
Flatten(ss) ==
    IF ss = <<>> THEN <<>>
    ELSE IF Len(ss) = 1 THEN ss[1]
    ELSE Flatten(FirstHalf(ss)) \o Flatten(SecondHalf(ss))

\* The input with each line trimmed and the blank lines removed
TrimmedNonBlank(ls) ==
    SelectSeq([i \in 1..Len(ls) |-> strip(ls[i])], LAMBDA l : l # <<>>)

\* The lines of all posted messages, in posting order
SaidLines == Flatten([i \in 1..Len(said) |-> splitlines(said[i])])

\* Lines a posted text counts
LineCount(text) == Len(splitlines(text))

\* C7: every message the batcher posts has at most 40 lines and at most 3500
\* characters, for every input line sequence, a line longer than the character
\* budget included.
C7_BatchWithinBounds ==
    \A i \in 1..Len(said) :
        LineCount(said[i]) <= MaxBatchLines /\ StrLen(said[i]) <= MaxBatchChars

\* C8: once the batcher has returned, the lines of the messages it posted,
\* concatenated in posting order, are the input lines trimmed, the blank ones
\* removed: none lost, duplicated or reordered.
C8_LinesPreserved ==
    bpc = "done" => SaidLines = TrimmedNonBlank(lines)

\* C8's case: a run that flushed inside the loop and at its end, over an input
\* with a blank line and a line that needed trimming.
C8_Witness ==
    /\ bpc = "done"
    /\ Len(said) >= 2
    /\ \E i \in 1..Len(lines) : strip(lines[i]) = <<>>
    /\ \E i \in 1..Len(lines) : strip(lines[i]) # <<>> /\ strip(lines[i]) # lines[i]

\* C9: the batcher never sends an empty reply: every posted message holds a
\* non-empty line, and an input without a non-blank line posts nothing.
C9_NoEmptyReply ==
    /\ \A i \in 1..Len(said) : \E j \in 1..LineCount(said[i]) : splitlines(said[i])[j] # <<>>
    /\ (bpc = "done" /\ TrimmedNonBlank(lines) = <<>>) => said = <<>>

-----------------------------------------------------------------------------
(* Properties of the orchestrator *)

\* The line mentions channel ch as <#ch>
Names(line, ch) ==
    \E k \in 1..Len(line) :
        /\ k + Len(ChanRef(ch)) - 1 <= Len(line)
        /\ SubSeq(line, k, k + Len(ChanRef(ch)) - 1) = ChanRef(ch)

IsFailureLine(line) == Head(line) = Lit("[x] ")
IsSuccessLine(line) == Head(line) = Lit("[v] Invited to ")

\* C1: whatever the join and invite responses, the orchestrator returns one
\* outcome line per channel, the i-th naming the i-th channel, and a failed
\* channel does not keep a later one from being processed (joined).
C1_OneLinePerChannel ==
    /\ ipc \in {"join", "invite"} => Len(results) = ch_idx - 1
    /\ ipc = "done" =>
          /\ Len(results) = Len(channel_ids)
          /\ \A i \in 1..Len(channel_ids) : Names(results[i], channel_ids[i])
          /\ joined = 1..Len(channel_ids)

\* C1's case: a returned call in which a channel failed and a later one was
\* invited to.
C1_Witness ==
    /\ ipc = "done"
    /\ \E i, j \in 1..Len(results) :
          i < j /\ IsFailureLine(results[i]) /\ IsSuccessLine(results[j])

\* C6: two calls on the same list whose remote responses differ at position
\* diff_idx only return the same line at every other position, and a line
\* names no channel but its own.
C6_Independent ==
    (ipc = "done" /\ twin.pc = "done") =>
        /\ Len(results) = Len(twin.results)
        /\ \A i \in 1..Len(results) :
              /\ i # diff_idx => results[i] = twin.results[i]
              /\ \A j \in 1..Len(channel_ids) :
                    j # i => ~Names(results[i], channel_ids[j])

\* C6's case: three channels, the middle one answered differently in the two
\* calls and failing in one of them.
C6_Witness ==
    /\ ipc = "done" /\ twin.pc = "done"
    /\ Len(channel_ids) = 3 /\ diff_idx = 2
    /\ results[2] # twin.results[2]
    /\ IsFailureLine(results[2])
    /\ IsSuccessLine(results[1]) /\ IsSuccessLine(results[3])

-----------------------------------------------------------------------------
(* Properties of the resolver *)

-----------------------------------------------------------------------------
(* Properties of _extract_channel_ids *)

\* The loop of _extract_channel_ids is over: its four lists are what it
\* returns, once each has gone through list(dict.fromkeys(...))
Extracted == hpc = "extract" /\ rpc = "idle" /\ xt.group = Nothing /\ xt.i > Len(xt.tokens)

NoDuplicates(s) == \A i, j \in 1..Len(s) : s[i] = s[j] => i = j

\* The entries of the returned empty-group list and missing-in-group list
\* that report the group g (group names compare without regard to case)
EmptyEntriesOf(g) ==
    { i \in 1..Len(dedupe(xt.empty_groups)) : lower(dedupe(xt.empty_groups)[i]) = g }
MissingEntriesOf(g) ==
    { i \in 1..Len(dedupe(xt.missing_channels)) :
        startswith(lower(dedupe(xt.missing_channels)[i]), g \o <<" ", "-", ">", " ">>) }

\* C11: when one group is named more than once among the tokens, in whatever
\* case, _resolve_group_channels runs once for it, and the result holds no
\* channel identifier twice and at most one empty-group entry and one
\* missing-in-group entry for that group.
C11_GroupResolvedOnce ==
    /\ NoDuplicates(group_calls)
    /\ Extracted =>
          /\ \A i \in 1..Len(xt.tokens) :
                lower(xt.tokens[i]) \in DOMAIN xt.channel_groups
                    => lower(xt.tokens[i]) \in Range(group_calls)
          /\ NoDuplicates(dedupe(xt.channel_ids))
          /\ \A g \in DOMAIN xt.channel_groups :
                /\ Cardinality(EmptyEntriesOf(g)) <= 1
                /\ Cardinality(MissingEntriesOf(g)) <= 1

\* The channel a token stands for, read off the token and the listing: the
\* identifier inside a mention, the identifier of the listed channel of that
\* name, or the identifier itself in upper case
Denotes(t) ==
    IF startswith(t, <<"<", "#">>) THEN SubSeq(t, 3, find(t, <<"|">>) - 1)
    ELSE IF startswith(t, <<"#">>)
    THEN LET k == CHOOSE k \in 1..Len(Workspace) : Workspace[k][1].name = Tail(t)
         IN  Workspace[k][1].id
    ELSE upper(t)

\* The channels the tokens stand for, each group replaced where it stands by
\* its members in the order of the group file
Expansion(tokens, groups) ==
    Concat([i \in 1..Len(tokens) |->
               IF lower(tokens[i]) \in DOMAIN groups
               THEN [j \in 1..Len(groups[lower(tokens[i])]) |->
                        Denotes(groups[lower(tokens[i])][j])]
               ELSE <<Denotes(tokens[i])>>])

FirstAt(s, x) == Min({ i \in 1..Len(s) : s[i] = x })

\* C12: the identifiers handed to _invite_bot_to_channels are the channels the
\* tokens stand for (groups expanded in place), each once, in the order of
\* their first occurrence.
C12_FirstOccurrenceOrder ==
    hpc = "invite" =>
        /\ NoDuplicates(channel_ids)
        /\ Range(channel_ids) = Range(Expansion(xt.tokens, xt.channel_groups))
        /\ \A i, j \in 1..Len(channel_ids) :
              i < j => FirstAt(Expansion(xt.tokens, xt.channel_groups), channel_ids[i])
                       < FirstAt(Expansion(xt.tokens, xt.channel_groups), channel_ids[j])

\* C12's case: an identifier in lower case, then a group that holds the same
\* channel, by name, after another one: three occurrences, two channels, the
\* second member of the group first.
C12_Witness ==
    /\ hpc = "invite"
    /\ xt.tokens = <<Tok_id_support, Tok_Customers>>
    /\ channel_ids = <<Chan(2), Chan(1)>>

\* A token that looks like an identifier, by its first letter, and is shorter
\* than one
ShortIdLike(t) ==
    /\ t # <<>>
    /\ upper(<<t[1]>>) \in { <<"C">>, <<"G">> }
    /\ Len(t) < 9

\* C13: _resolve_channel_identifier returns None, without a listing call, for
\* every token that begins with C or G in either case and has fewer than 9
\* characters; such a token is reported as unknown, is never among the
\* identifiers handed to _invite_bot_to_channels, and keeps the whole command
\* from reaching it.
C13_ShortIdUnresolved ==
    /\ ShortIdLike(rtoken) =>
          /\ rpc # "listing"
          /\ rpc = "done" => (rresult = NoneS /\ fetches = 0)
    /\ \A i \in 1..Len(xt.tokens) :
          (ShortIdLike(xt.tokens[i]) /\ lower(xt.tokens[i]) \notin DOMAIN xt.channel_groups) =>
              /\ (xt.i > i => xt.tokens[i] \in Range(xt.unknown_tokens))
              /\ hpc # "invite"
    /\ \A i \in 1..Len(channel_ids) : ~ShortIdLike(channel_ids[i])

\* C13's case: the command names a listed channel and the seven-letter word
\* "general"; the first resolved, the second did not, and the command ended
\* without a call of _invite_bot_to_channels.
C13_Witness ==
    /\ hpc = "done"
    /\ xt.channel_ids # <<>>
    /\ Tok_general \in Range(xt.unknown_tokens)
    /\ ipc = "idle"

-----------------------------------------------------------------------------
(* Properties of the calls of the orchestrator *)

\* The latest call was the last one for its channel: the loop has gone on to
\* the next channel (attempt is 0 again) or has returned
ChannelEnded == last_call.op # "none" /\ attempt = 0
\* The position of the channel the latest call was for
CalledFor == IF ChannelEnded THEN Len(results) ELSE ch_idx

IsWarningLine(line) == Head(line) = Lit("[!] Already in ")

\* C14: once conversations_invite has failed with already_in_channel, the line
\* of that channel is the already-member warning and no failure line, whatever
\* the join before it returned, and the loop is at the next channel or over.
C14_AlreadyMemberIsWarning ==
    (last_call.op = "invite" /\ ~last_call.ok /\ last_call.error = "already_in_channel") =>
        /\ results # <<>>
        /\ results[Len(results)] = AlreadyLine(channel_ids[Len(results)])
        /\ IsWarningLine(results[Len(results)])
        /\ ~IsFailureLine(results[Len(results)])
        /\ \/ ipc = "done" /\ Len(results) = Len(channel_ids)
           \/ ipc = "join" /\ ch_idx = Len(results) + 1 /\ attempt = 0

\* C14's case: the join of the first channel failed with
\* method_not_supported_for_channel_type, its invite with already_in_channel,
\* and the loop is at the second channel.
C14_Witness ==
    /\ last_call.op = "invite" /\ last_call.error = "already_in_channel"
    /\ ~last_call.join_ok /\ last_call.join_err = "method_not_supported_for_channel_type"
    /\ ipc = "join" /\ ch_idx = 2

\* C19: once conversations_invite has failed with cant_invite, the line of
\* that channel is the failure line with the add-to-the-channel-first hint
\* when the latest join of the channel failed with
\* method_not_supported_for_channel_type or not_in_channel, and the failure
\* line with the code cant_invite after any other join result.
C19_CantInviteHint ==
    (last_call.op = "invite" /\ ~last_call.ok /\ last_call.error = "cant_invite") =>
        /\ ChannelEnded
        /\ results[Len(results)] =
              IF ~last_call.join_ok
                 /\ last_call.join_err \in {"method_not_supported_for_channel_type", "not_in_channel"}
              THEN CantInviteLine(channel_ids[Len(results)])
              ELSE ErrorLine(channel_ids[Len(results)], "cant_invite")
        /\ IsFailureLine(results[Len(results)])

\* C19's case: cant_invite for two channels, the first after a join that
\* succeeded (raw code), the second after a join that failed with
\* method_not_supported_for_channel_type (hint).
C19_Witness ==
    /\ Len(results) = 2
    /\ results[1] = ErrorLine(channel_ids[1], "cant_invite")
    /\ results[2] = CantInviteLine(channel_ids[2])
    /\ last_call.op = "invite" /\ last_call.error = "cant_invite"
    /\ last_call.join_err = "method_not_supported_for_channel_type"

JoinLetThrough ==
    last_call.ok \/ last_call.error \in {"already_in_channel", "method_not_supported_for_channel_type"}

-----------------------------------------------------------------------------
(* Properties of _load_channel_groups and _parse_command_text *)

\* An entry whose value is neither a list nor a record, or a record whose
\* `channels` is no list
Malformed(raw) == raw.type = "other" \/ (raw.type = "dict" /\ raw.channels = Nothing)
\* A well-formed entry none of whose channel entries counts
ZeroChannels(raw) ==
    /\ ~Malformed(raw)
    /\ \A k \in 1..Len(raw.channels[1]) : raw.channels[1][k] = <<>>

\* C17: on a file that holds a JSON object, the load fails exactly when some
\* well-formed group has zero channel entries; otherwise it returns the
\* well-formed groups, each with its non-empty channel entries, and leaves the
\* malformed entries out.
C17_MalformedEntriesDropped ==
    (call_ret # <<>> /\ call_arg.kind = "object") =>
        /\ ~call_ret[1].ok <=>
              \E i \in 1..Len(call_arg.entries) : ZeroChannels(call_arg.entries[i].raw)
        /\ call_ret[1].ok =>
              /\ DOMAIN call_ret[1].groups =
                    { lower(call_arg.entries[i].name) :
                        i \in { j \in 1..Len(call_arg.entries) :
                                  ~Malformed(call_arg.entries[j].raw) } }
              /\ \A i \in 1..Len(call_arg.entries) :
                    ~Malformed(call_arg.entries[i].raw) =>
                        call_ret[1].groups[lower(call_arg.entries[i].name)]
                            = SelectSeq(call_arg.entries[i].raw.channels[1], LAMBDA c : c # <<>>)

\* The words of a text once one mention of the bot is taken off its front,
\* if it is the first word
AfterLeadingMention(text) ==
    IF split(text) # <<>> /\ split(text)[1] = BOT_MENTION THEN Tail(split(text))
    ELSE split(text)

\* C18: the parser takes one mention of the bot off the text, and only when it
\* is the first word; a mention further on stays among the arguments.  The
\* first word left, in lower case, is the command, the words after it are the
\* arguments as typed, and with no word left the parse fails.
C18_LeadingMentionOnly ==
    call_ret # <<>> =>
        /\ call_ret[1].ok <=> AfterLeadingMention(call_arg) # <<>>
        /\ call_ret[1].ok =>
              /\ call_ret[1].command = lower(Head(AfterLeadingMention(call_arg)))
              /\ call_ret[1].args = Tail(AfterLeadingMention(call_arg))

-----------------------------------------------------------------------------
(* Properties of the raw-identifier rule *)

\* The token, stripped, is no mention and begins with c or g in either case
BeginsWithCG(token) ==
    /\ _extract_channel_id_from_mention(token) = NoneS
    /\ \/ startswith(upper(strip_chars(token)), <<"C">>)
       \/ startswith(upper(strip_chars(token)), <<"G">>)

\* What the raw-identifier rule makes of the token
RawId(token) ==
    IF Len(strip_chars(token)) >= MinIdLen THEN upper(strip_chars(token)) ELSE NoneS

\* C27: a token that is no mention and begins with c or g, in either case,
\* is decided by the raw-identifier rule alone: no listing call is made and
\* the cache is not asked; with 9 characters or more the result is the token
\* in upper case, with fewer it is unresolved, also when a channel of that
\* name is listed or cached.
C27_RawIdRuleDecides ==
    BeginsWithCG(rtoken) =>
        /\ rpc # "listing"
        /\ rpc = "done" => (fetches = 0 /\ rresult = RawId(rtoken))
        /\ \A i \in 1..Len(resolutions) :
               resolutions[i].fetches = 0 /\ resolutions[i].value = RawId(rtoken)

\* C27's case: the bare name, nine characters long, of a channel that is
\* listed and cached has been resolved to itself in upper case.
C27_Witness ==
    /\ rpc = "done"
    /\ rtoken = Str_customers
    /\ Str_customers \in DOMAIN CHANNEL_CACHE
    /\ rresult = upper(Str_customers)

\* No lower-case letter is in the identifier
IsCanonical(id) == \A i \in 1..Len(id) : \A k \in 1..26 : id[i] # LowerChars[k]

-----------------------------------------------------------------------------
(* Properties of the flag caches *)

\* The answer is a rate-limit signal (both such answers carry the code)
RateLimitCode == "ratelimited"

UserCached == event.user \in DOMAIN USER_INFO_CACHE
ChannelCached == event.channel \in DOMAIN CHANNEL_INFO_CACHE

\* The handler is past the guest check, past the external-channel check
PastGuestCheck ==
    hpc \notin {"idle", "users_info"} /\ rejected_at \notin {"malformed", "allow_list"}
PastExternalCheck ==
    PastGuestCheck /\ hpc # "conversations_info" /\ rejected_at # "guest"

\* No remote lookup is made for a cached key, and the decision for a cached
\* key is the one its cached flags give
DecidedFromCache ==
    /\ hpc = "users_info" => ~UserCached
    /\ hpc = "conversations_info" => ~ChannelCached
    /\ (PastGuestCheck /\ UserCached) =>
           (rejected_at = "guest" <=> AnyFlag(USER_INFO_CACHE[event.user]))
    /\ (PastExternalCheck /\ ChannelCached) =>
           (rejected_at = "external" <=> AnyFlag(CHANNEL_INFO_CACHE[event.channel]))

\* Every entry of the two caches is still there, unchanged, after the step
EntriesKept ==
    /\ \A u \in DOMAIN USER_INFO_CACHE :
           u \in DOMAIN USER_INFO_CACHE' /\ USER_INFO_CACHE'[u] = USER_INFO_CACHE[u]
    /\ \A c \in DOMAIN CHANNEL_INFO_CACHE :
           c \in DOMAIN CHANNEL_INFO_CACHE' /\ CHANNEL_INFO_CACHE'[c] = CHANNEL_INFO_CACHE[c]

\* C23: once the flags of a user or of a channel are cached, every later
\* decision for that user or channel is made without a remote lookup and is
\* the one the cached flags give, whatever the service would answer now; no
\* step removes or overwrites an entry of either cache.
C23_CachedFlagsAreFinal == []DecidedFromCache /\ [][EntriesKept]_vars

\* C23's case: an event of a user and a channel whose flags were cached by an
\* earlier event got to its command without a lookup.
C23_Witness ==
    /\ UserCached /\ ChannelCached
    /\ "parse" \in reached
    /\ reached \cap {"users_info", "conversations_info"} = {}

\* The lookup of the user, of the channel, ended in an error and the request
\* was turned away for it
GuestLookupFailed ==
    hpc = "done" /\ rejected_at = "guest" /\ "users_info" \in reached /\ ~last_resp.ok
ChannelLookupFailed ==
    hpc = "done" /\ rejected_at = "external" /\ "conversations_info" \in reached
    /\ ~last_resp.ok

\* A step that changes a flag cache is a lookup that was answered
WrittenOnAnswerOnly ==
    /\ USER_INFO_CACHE' # USER_INFO_CACHE => (hpc = "users_info" /\ last_resp'.ok)
    /\ CHANNEL_INFO_CACHE' # CHANNEL_INFO_CACHE =>
           (hpc = "conversations_info" /\ last_resp'.ok)

\* A request of a user (in a channel) without cached flags that gets to the
\* check makes the lookup, and a lookup answered with all flags false admits
LooksUpAgain ==
    /\ (hpc = "idle" /\ hpc' # "idle" /\ rejected_at' \notin {"malformed", "allow_list"}
        /\ event'.user \notin DOMAIN USER_INFO_CACHE) => hpc' = "users_info"
    /\ (hpc # "conversations_info" /\ hpc' \notin {"idle", "users_info"}
        /\ rejected_at' \notin {"malformed", "allow_list", "guest"}
        /\ ~startswith(event'.channel, <<"D">>)
        /\ event'.channel \notin DOMAIN CHANNEL_INFO_CACHE') => hpc' = "conversations_info"
    /\ (hpc = "users_info" /\ last_resp'.ok /\ ~AnyFlag(USER_INFO_CACHE'[event.user]))
           => rejected_at' # "guest"
    /\ (hpc = "conversations_info" /\ last_resp'.ok
        /\ ~AnyFlag(CHANNEL_INFO_CACHE'[event.channel])) => hpc' = "command"

\* C26: a lookup of user or channel flags that ends in an error (missing
\* scope, another error, rate limiting past the bound) writes no cache entry:
\* the request is turned away and the key stays uncached, so the next request
\* for it makes the lookup again and passes if the answer has no flag set.
C26_FailClosedNotCached ==
    /\ [](GuestLookupFailed => ~UserCached)
    /\ [](ChannelLookupFailed => ~ChannelCached)
    /\ [][WrittenOnAnswerOnly /\ LooksUpAgain]_vars

\* C26's case: the lookup of the user was rate-limited past the bound and the
\* request was turned away.
C26_Witness ==
    /\ GuestLookupFailed
    /\ last_resp.error = RateLimitCode
    /\ lookup_attempt > MAX_RATE_LIMIT_RETRIES


-----------------------------------------------------------------------------
(* Retries of the orchestrator *)

\* C21: a second or later conversations_join for a channel is called only
\* when the join call before it for that channel was answered with a
\* rate-limit signal; join is not called again after it succeeded or failed
\* with a tolerated code, whatever conversations_invite then answers.
C21_JoinRetriedOnRateLimitOnly ==
    (ipc = "join" /\ attempt >= 1) =>
        (~last_call.join_ok /\ last_call.join_err = RateLimitCode)

\* C22: a conversations_invite answered with a rate-limit signal is retried
\* whenever at most MAX_RATE_LIMIT_RETRIES invite calls have been made for the
\* channel, however many retries the join of that channel used up.
C22_InviteOwnRetryBound ==
    (/\ last_call.op = "invite" /\ ~last_call.ok /\ last_call.error = RateLimitCode
     /\ last_call.invites <= MAX_RATE_LIMIT_RETRIES)
        => (ipc = "join" /\ attempt >= 1)

-----------------------------------------------------------------------------
(* Termination and replies of the handler *)

Handling == hpc # "idle"
Finished == hpc = "done"

\* The result line is among the lines of the posted messages
PostedLine(line) == \E i \in 1..Len(SaidLines) : SaidLines[i] = strip(line)

\* C15: whatever the event and the answers of the remote service, a handler
\* that has finished has posted at least one reply, an error of a remote call
\* having become a reply or a result line; and if the add command got to the
\* orchestrator, there is a result line for each channel and each is posted.
C15_AlwaysReplies ==
    Finished =>
        /\ said # <<>>
        /\ "invite" \in reached =>
               /\ Len(results) = Len(channel_ids)
               /\ \A j \in 1..Len(results) : PostedLine(results[j])

\* C15's case: an add command got to the orchestrator, a remote call of it
\* failed, and the handler has finished.
C15_Witness ==
    /\ Finished
    /\ "invite" \in reached
    /\ ~last_call.ok
    /\ \E j \in 1..Len(results) : IsFailureLine(results[j])

\* C16: the handling of every event ends, whatever the remote service answers,
\* a listing that hands out a continuation cursor with every page included.
C16_Terminates == Handling ~> Finished

-----------------------------------------------------------------------------
(* Properties of two threads at the shared caches *)

\* The answers of the service to thread t that carried a payload
Payloads(t) ==
    { threads[t].answers[i].data :
        i \in { k \in 1..Len(threads[t].answers) : threads[t].answers[k].ok } }

\* The flags the service returned to thread t for the key (of function op)
FlagsGivenTo(t, op, key) ==
    IF threads[t].op = op /\ threads[t].key = key THEN Payloads(t) ELSE {}

\* The identifiers the service listed to thread t under the name
IdsListedTo(t, name) ==
    IF threads[t].op # "name" THEN {}
    ELSE UNION { { page.channels[j].id :
                     j \in { k \in 1..Len(page.channels) :
                               lower(page.channels[k].name) = name } } :
                 page \in Payloads(t) }

\* Every entry of the three caches is a value the service returned for its key
CachesFromService ==
    /\ \A u \in DOMAIN USER_INFO_CACHE :
           \E t \in Threads : USER_INFO_CACHE[u] \in FlagsGivenTo(t, "guest", u)
    /\ \A c \in DOMAIN CHANNEL_INFO_CACHE :
           \E t \in Threads : CHANNEL_INFO_CACHE[c] \in FlagsGivenTo(t, "external", c)
    /\ \A n \in DOMAIN CHANNEL_CACHE :
           \E t \in Threads : CHANNEL_CACHE[n] \in IdsListedTo(t, n)

\* No key leaves a cache
KeysKept ==
    /\ DOMAIN USER_INFO_CACHE \subseteq DOMAIN USER_INFO_CACHE'
    /\ DOMAIN CHANNEL_INFO_CACHE \subseteq DOMAIN CHANNEL_INFO_CACHE'
    /\ DOMAIN CHANNEL_CACHE \subseteq DOMAIN CHANNEL_CACHE'

\* What _channel_name_to_id returns for the name when it runs by itself from
\* the cache and gets the answers, in order
RECURSIVE ListedAlone(_, _, _)
ListedAlone(cache, name, answers) ==
    IF answers = <<>> THEN CacheGet(cache, name)
    ELSE IF ~Head(answers).ok THEN NoneS
    ELSE IF Head(answers).data.next_cursor = 0
    THEN CacheGet(CachePage(cache, Head(answers).data.channels), name)
    ELSE ListedAlone(CachePage(cache, Head(answers).data.channels), name, Tail(answers))

\* What the function of thread t returns when the thread runs by itself, from
\* the cache it found on entry and with the answers it got
Alone(t) ==
    LET th == threads[t]
        last == th.answers[Len(th.answers)]
    IN  IF th.op = "name"
        THEN IF th.key \in DOMAIN th.found THEN th.found[th.key]
             ELSE ListedAlone(th.found, th.key, th.answers)
        ELSE IF th.key \in DOMAIN th.found THEN AnyFlag(th.found[th.key])
        ELSE IF last.ok THEN AnyFlag(last.data)
        ELSE TRUE

Returned(t) == threads[t].pc = "done"
Other(t) == CHOOSE u \in Threads : u # t

\* C25 as claimed: with two handlers interleaved at their remote calls, every
\* cache entry is a value the service returned for its key, no key is lost,
\* and what each handler's lookup returns is what it returns running alone
\* with the same answers.
C25_NoInterference ==
    /\ [](CachesFromService /\ \A t \in Threads : Returned(t) => threads[t].result = Alone(t))
    /\ [][KeysKept]_vars

\* C25, amended: every cache entry is a value the service returned for its
\* key, no key is lost, and a lookup returns what it returns running alone
\* with the same answers, except that a name lookup may return the
\* identifier the service listed under that name to the other handler.
C25_CachesUncorrupted ==
    /\ [](/\ CachesFromService
          /\ \A t \in Threads :
                Returned(t) =>
                    \/ threads[t].result = Alone(t)
                    \/ /\ threads[t].op = "name"
                       /\ threads[t].result \in IdsListedTo(Other(t), threads[t].key))
    /\ [][KeysKept]_vars

\* C25's case: both handlers looked the same key up, each missed the cache
\* and called the service before the other had returned, and both returned.
C25_Witness ==
    /\ \A t \in Threads : Returned(t) /\ threads[t].answers # <<>>
    /\ threads[1].op = threads[2].op /\ threads[1].key = threads[2].key
    /\ \A t \in Threads : threads[t].key \notin DOMAIN threads[t].found

=============================================================================
